---- MODULE Spec2Model ----
(***************************************************************************)
(* Model of the 1sol-protocol TypeScript client (src/js/src).              *)
(*                                                                         *)
(* The client is a binding layer: 64-bit amount encoding (Numberu64),      *)
(* account loaders that talk to an RPC node, and instruction builders      *)
(* that concatenate account key lists with a discriminant byte.            *)
(*                                                                         *)
(* Numbers: TLC integers are 32 bit, so an arbitrary-precision BN is       *)
(* modelled by its base-256 digits, least significant first and without    *)
(* high zero digits (zero is the empty sequence).  Buffers are sequences   *)
(* of bytes, index 1 of the sequence being index 0 of the buffer.          *)
(***************************************************************************)
EXTENDS Integers, Sequences, FiniteSets, TLC

VARIABLES
    \* ---- Numberu64 pipeline ----
    input,        \* the value/buffer the pipeline was started with
    acc,          \* the value the next Numberu64 call is applied to
    calls,        \* the Numberu64 methods applied so far, in order
    \* ---- one invocation of an RPC helper ----
    helper,       \* the helper that was invoked
    pc,           \* where the invocation stands
    accountInfo,  \* what the node holds at the requested address
    programId,    \* the owner the caller expects
    onCurve,      \* nonces whose derived address is not a valid PDA
    rpcCount,     \* RPC requests issued so far, per request name
    rejected,     \* TRUE once the node has rejected a request
    checks,       \* checks of the fetched account passed so far, in order
    lamports,     \* the airdrop amount asked for
    retries,      \* newAccountWithLamports' countdown
    nonce,        \* getVaultOwnerAndNonce's counter
    ret,          \* Pending, or the helper's return value / thrown error
    \* ---- a OneSolProtocol client and the transaction being assembled ----
    protocol,     \* the OneSolProtocol instance (programId, tokenProgramId)
    instructions, \* the caller's instruction list
    signers,      \* the caller's signer list
    lastCall,     \* the last method called on the client, with its arguments
    lastRet,      \* what that call returned or threw
    nCalls,       \* number of calls made on the client
    \* ---- one invocation of loadSerumDexMarket ----
    fetches,      \* the two loadAccount calls handed to Promise.all
    settleOrder,  \* the fetches that have settled, in settlement order
    marketPc,     \* where loadSerumDexMarket stands
    decodedWith,  \* the fetches as they stood when decoding began
    marketRet,    \* Pending, or what loadSerumDexMarket returned / threw
    \* ---- createOneSolProtocol followed by loadOneSolProtocol ----
    chainAccount, \* what the cluster holds at the protocol account address
    given,        \* the arguments createOneSolProtocol was called with
    transaction,  \* the instructions of the transaction that was sent
    txSigners,    \* the accounts that signed it
    rentFetched,  \* Pending, or how getMinimumBalanceForRentExemption settled
    roundPc,      \* where the create / load sequence stands
    createRet,    \* Pending, or what createOneSolProtocol returned / threw
    loadCall,     \* the arguments loadOneSolProtocol was called with
    loadRet,      \* Pending, or what loadOneSolProtocol returned / threw
    \* ---- one OneSolProtocol.swap against the cluster ----
    balances,     \* token amount held by each token account
    balancesBefore, \* the balances when swap was called
    swapCall,     \* the arguments swap was called with
    swapTx,       \* the instruction of the transaction that was sent
    quoted,       \* the output amount the venue gave for this swap
    swapPc,       \* where the swap stands
    swapRet,      \* Pending, or what swap returned / threw
    \* ---- one run of a CLI script ----
    cli,          \* the script that runs
    env,          \* process.env after dotenv.config()
    cliPc,        \* "load", "main" or "exited"
    config,       \* what loading the url module produced, or its throw
    started,      \* the stages main() has started, in order
    resolved,     \* how many of them have resolved
    rejectedStage, \* 0, or the position of the stage that rejected
    output,       \* the lines written to the console
    exitCode,     \* NULL, or the code the process exited with
    \* ---- a two-step route ----
    route,        \* the two steps (ammInfo, stepInfo) the caller has loaded
    \* ---- a venue object and the calls made on it ----
    venueInfo,    \* the venue object (class and fields), NULL when there is none
    toKeysCalls,  \* the toKeys calls made on it: argument and returned list
    hostFeeRet,   \* Pending, or what includeHostFeeAccount() returned
    \* ---- one call of findSwapInfo ----
    programAccounts, \* the accounts the cluster holds
    findCall,     \* NULL, or the wallet searched for and the listing received
    findRet       \* Pending, or what findSwapInfo returned / threw

numVars == <<input, acc, calls>>

helperVars == <<helper, pc, accountInfo, programId, onCurve, rpcCount,
                rejected, checks, lamports, retries, nonce, ret>>

clientVars == <<protocol, instructions, signers, lastCall, lastRet, nCalls>>

marketVars == <<fetches, settleOrder, marketPc, decodedWith, marketRet>>

createVars == <<chainAccount, given, transaction, txSigners, rentFetched,
                roundPc, createRet, loadCall, loadRet>>

swapVars == <<balances, balancesBefore, swapCall, swapTx, quoted, swapPc,
              swapRet>>

cliVars == <<cli, env, cliPc, config, started, resolved, rejectedStage,
             output, exitCode>>

routeVars == <<route>>

venueVars == <<venueInfo, toKeysCalls, hostFeeRet>>

findVars == <<programAccounts, findCall, findRet>>

restVars ==
    <<marketVars, createVars, swapVars, cliVars, routeVars, venueVars,
      findVars>>

vars == <<numVars, helperVars, clientVars, restVars>>

(***************************************************************************)
(* Bounds                                                                  *)
(***************************************************************************)
MaxDigits == 9          \* longest BN / buffer drawn as an input, in bytes
MaxCalls == 2           \* Numberu64 calls chained on one input
MaxNonce == 3           \* nonces below this one may fail to give a PDA
MaxBuilds == 1          \* calls made on one OneSolProtocol client
MaxToKeys == 3          \* toKeys calls made on one venue object
MaxInfos == 2           \* TokenSwapInfo venues in one ratio swap

\* byte values the inputs are drawn from: zero, a one-hex-digit byte, the
\* first two-hex-digit byte and the largest byte
ByteSamples == {0, 1, 16, 255}

(***************************************************************************)
(* Sequence helpers                                                        *)
(***************************************************************************)
Reverse(s) == [i \in 1..Len(s) |-> s[Len(s) + 1 - i]]

RECURSIVE Strip(_)
\* drop the high (last) zero digits of a little-endian digit sequence
Strip(s) == IF s = <<>> THEN <<>>
            ELSE IF s[Len(s)] = 0 THEN Strip(SubSeq(s, 1, Len(s) - 1))
            ELSE s

RECURSIVE Flatten(_)
Flatten(ss) == IF ss = <<>> THEN <<>> ELSE Head(ss) \o Flatten(Tail(ss))

Zeros(n) == [i \in 1..n |-> 0]

SeqsUpTo(S, n) == UNION {[1..k -> S] : k \in 0..n}

(***************************************************************************)
(* bn.js                                                                   *)
(***************************************************************************)
\* BN.toArray(): big-endian bytes, at least one byte (zero is [0])
BN_toArray(n) == IF n = <<>> THEN <<0>> ELSE Reverse(n)

\* new BN(str, 16): parse a string of hex digits (most significant first)
BN_fromHex(str) ==
    LET le == Reverse(str)
        nb == (Len(le) + 1) \div 2
        digit(k) == IF k <= Len(le) THEN le[k] ELSE 0
    IN  Strip([i \in 1..nb |-> digit(2 * i - 1) + 16 * digit(2 * i)])

\* Number.prototype.toString(16) of a byte: one or two hex digits
toString16(i) == IF i < 16 THEN <<i>> ELSE <<i \div 16, i % 16>>

\* String.prototype.slice(-2): the last two characters
sliceLast2(s) == IF Len(s) <= 2 THEN s ELSE SubSeq(s, Len(s) - 1, Len(s))

(***************************************************************************)
(* Results of a call: a returned value or a thrown error                   *)
(***************************************************************************)
Number(n) == [kind |-> "number", n |-> n]
Buf(b)    == [kind |-> "buffer", bytes |-> b]
Throw(m)  == [kind |-> "throw", message |-> m]

(***************************************************************************)
(* Numberu64                                                               *)
(***************************************************************************)
\* a toBuffer that forgets the reverse() and emits big-endian bytes
toBufferBigEndian(n) ==
    LET b == BN_toArray(n)
    IN  IF Len(b) = 8 THEN Buf(b)
        ELSE IF ~(Len(b) < 8) THEN Throw("Numberu64 too large")
        ELSE Buf(b \o Zeros(8 - Len(b)))

toBuffer(n) ==
    LET a == Reverse(BN_toArray(n))
        b == a
    IN  IF Len(b) = 8 THEN Buf(b)
        ELSE IF ~(Len(b) < 8) THEN Throw("Numberu64 too large")
        ELSE Buf([i \in 1..8 |-> IF i <= Len(b) THEN b[i] ELSE 0])

\* a fromBuffer that forgets to pad each byte to two hex digits
fromBufferNoPad(buffer) ==
    IF Len(buffer) # 8 THEN Throw("Invalid buffer length")
    ELSE Number(BN_fromHex(Flatten(
             [k \in 1..8 |-> toString16(Reverse(buffer)[k])])))

fromBuffer(buffer) ==
    IF Len(buffer) # 8 THEN Throw("Invalid buffer length")
    ELSE Number(BN_fromHex(Flatten(
             [k \in 1..8 |->
                 sliceLast2(<<0, 0>> \o toString16(Reverse(buffer)[k]))])))

(***************************************************************************)
(* Parts of the state a specification does not exercise stay idle          *)
(***************************************************************************)
\* JavaScript null, and the result of a helper that has not settled yet
NULL == [kind |-> "null"]

Pending == [kind |-> "pending"]

RpcNames == {"getAccountInfo", "requestAirdrop", "getBalance"}

NoRpc == [r \in RpcNames |-> 0]

HelpersIdle ==
    /\ helper = "none"
    /\ pc = "done"
    /\ accountInfo = NULL
    /\ programId = "none"
    /\ onCurve = {}
    /\ rpcCount = NoRpc
    /\ rejected = FALSE
    /\ checks = <<>>
    /\ lamports = 0
    /\ retries = 0
    /\ nonce = 0
    /\ ret = Pending

NumberIdle ==
    /\ input = NULL
    /\ acc = NULL
    /\ calls = <<>>

ClientIdle ==
    /\ protocol = NULL
    /\ instructions = <<>>
    /\ signers = <<>>
    /\ lastCall = NULL
    /\ lastRet = Pending
    /\ nCalls = 0

FetchNames == {"market", "ext"}

MarketIdle ==
    /\ fetches = [f \in FetchNames |-> [state |-> "idle"]]
    /\ settleOrder = <<>>
    /\ marketPc = "idle"
    /\ decodedWith = NULL
    /\ marketRet = Pending

CreateIdle ==
    /\ chainAccount = NULL
    /\ given = NULL
    /\ transaction = <<>>
    /\ txSigners = <<>>
    /\ rentFetched = Pending
    /\ roundPc = "idle"
    /\ createRet = Pending
    /\ loadCall = NULL
    /\ loadRet = Pending

SwapIdle ==
    /\ balances = <<>>
    /\ balancesBefore = <<>>
    /\ swapCall = NULL
    /\ swapTx = NULL
    /\ quoted = 0
    /\ swapPc = "idle"
    /\ swapRet = Pending

CliIdle ==
    /\ cli = "none"
    /\ env = NULL
    /\ cliPc = "exited"
    /\ config = NULL
    /\ started = <<>>
    /\ resolved = 0
    /\ rejectedStage = 0
    /\ output = <<>>
    /\ exitCode = NULL

RouteIdle == route = NULL

FindIdle ==
    /\ programAccounts = {}
    /\ findCall = NULL
    /\ findRet = Pending

VenueIdle ==
    /\ venueInfo = NULL
    /\ toKeysCalls = <<>>
    /\ hostFeeRet = Pending

RestIdle ==
    /\ MarketIdle
    /\ CreateIdle
    /\ SwapIdle
    /\ CliIdle
    /\ RouteIdle
    /\ VenueIdle
    /\ FindIdle

(***************************************************************************)
(* Numberu64 pipeline: start from a number or a buffer and chain calls     *)
(***************************************************************************)
\* canonical BN values of at most MaxDigits bytes
BNValues == {n \in SeqsUpTo(ByteSamples, MaxDigits) : Strip(n) = n}

\* the sampled shapes: the numbers the pipeline starts from
NumberInputs ==
    {n \in BNValues :
        \A i \in 1..Len(n) : i \notin {1, 2, 8, Len(n)} => n[i] = 0}

BufferInputs ==
    {b \in SeqsUpTo(ByteSamples, MaxDigits) :
        \A i \in 1..Len(b) : i \notin {1, 2, 7, 8} => b[i] = 0}

InitNumberu64 ==
    /\ input \in {Number(n) : n \in NumberInputs}
                 \cup {Buf(b) : b \in BufferInputs}
    /\ acc = input
    /\ calls = <<>>
    /\ HelpersIdle
    /\ ClientIdle
    /\ RestIdle

CallToBuffer ==
    /\ Len(calls) < MaxCalls
    /\ acc.kind = "number"
    /\ acc' = toBuffer(acc.n)
    /\ calls' = Append(calls, "toBuffer")
    /\ UNCHANGED <<input, helperVars, clientVars, restVars>>

CallFromBuffer ==
    /\ Len(calls) < MaxCalls
    /\ acc.kind = "buffer"
    /\ acc' = fromBuffer(acc.bytes)
    /\ calls' = Append(calls, "fromBuffer")
    /\ UNCHANGED <<input, helperVars, clientVars, restVars>>

NextNumberu64 == CallToBuffer \/ CallFromBuffer

SpecNumberu64 == InitNumberu64 /\ [][NextNumberu64]_vars

(***************************************************************************)
(* Claims about Numberu64                                                  *)
(***************************************************************************)
\* digit i (from 1) of a BN, zero beyond its length
DigitOf(n, i) == IF i <= Len(n) THEN n[i] ELSE 0

\* C1: Numberu64 encode/decode is a round trip.  Every value below 2^64
\* comes back from fromBuffer(toBuffer(v)) unchanged, and every 8-byte
\* buffer comes back from toBuffer(fromBuffer(b)) byte for byte.
C1_RoundTrip ==
    /\ (/\ input.kind = "number"
        /\ Len(input.n) <= 8
        /\ calls = <<"toBuffer", "fromBuffer">>) => acc = input
    /\ (/\ input.kind = "buffer"
        /\ Len(input.bytes) = 8
        /\ calls = <<"fromBuffer", "toBuffer">>) => acc = input

\* a full-width value whose low byte prints as a single hex digit has
\* gone through both conversions
C1_Witness ==
    /\ input = Number(<<1, 16, 0, 0, 0, 0, 0, 255>>)
    /\ calls = <<"toBuffer", "fromBuffer">>
    /\ acc = input

\* C2: toBuffer returns exactly 8 little-endian bytes, zero padded at the
\* high indices, for every value below 2^64 (zero included), and fails with
\* 'Numberu64 too large' for every value of 2^64 or more.
C2_ToBufferLittleEndian ==
    (input.kind = "number" /\ calls = <<"toBuffer">>) =>
        IF Len(input.n) <= 8
        THEN /\ acc.kind = "buffer"
             /\ Len(acc.bytes) = 8
             /\ \A i \in 1..8 : acc.bytes[i] = DigitOf(input.n, i)
        ELSE acc = Throw("Numberu64 too large")

\* a two-byte value was padded to eight bytes, low byte first
C2_Witness ==
    /\ input = Number(<<1, 16>>)
    /\ calls = <<"toBuffer">>
    /\ acc = Buf(<<1, 16, 0, 0, 0, 0, 0, 0>>)

(***************************************************************************)
(* RPC helpers: account loaders                                            *)
(***************************************************************************)
Return(v) == [kind |-> "return", value |-> v]

\* owners an account can have, and the program ids a caller can expect
Programs == {"swapProgram", "otherProgram"}

\* the public keys stored in a pool account after its three header bytes
PoolBody ==
    [tokenPool |-> "poolMint", feeAccount |-> "feeAccount",
     tokenAccountA |-> "tokenAccountA", tokenAccountB |-> "tokenAccountB",
     mintA |-> "mintA", mintB |-> "mintB",
     adminFeeAccountA |-> "adminFeeAccountA",
     adminFeeAccountB |-> "adminFeeAccountB"]

\* header bytes an account can start with
HeaderBytes == {0, 1, 255}

AccountInfos ==
    {NULL} \cup
    [owner : Programs,
     data : [header : [1..3 -> HeaderBytes], body : {PoolBody}]]

\* loadAccount that returns the data of an account whatever its owner
loadAccountAnyOwner(info, expected) ==
    IF info = NULL
    THEN [ret |-> Throw("Failed to find account"), checks |-> <<>>]
    ELSE [ret |-> Buf(info.data), checks |-> <<"exists", "owner">>]

\* loadAccount, from the point where getAccountInfo has resolved to info
loadAccount(info, expected) ==
    IF info = NULL
    THEN [ret |-> Throw("Failed to find account"), checks |-> <<>>]
    ELSE IF ~(info.owner = expected)
    THEN [ret |-> Throw("Invalid owner"), checks |-> <<"exists">>]
    ELSE [ret |-> Buf(info.data), checks |-> <<"exists", "owner">>]

\* TokenSwapLayout.decode: version, isInitialized, nonce, then the keys
TokenSwapLayout_decode(data) ==
    [version |-> data.header[1], isInitialized |-> data.header[2],
     nonce |-> data.header[3], body |-> data.body]

\* StableSwapLayout.decode: isInitialized, isPaused, nonce, then the keys
StableSwapLayout_decode(data) ==
    [isInitialized |-> data.header[1], isPaused |-> data.header[2],
     nonce |-> data.header[3], body |-> data.body]

\* PublicKey.createProgramAddress: throws when the derived address falls on
\* the curve, which depends on the seeds only
createProgramAddress(address, n, pid) ==
    IF n \in onCurve
    THEN Throw("Invalid seeds, address must fall off the curve")
    ELSE [kind |-> "pubkey", seeds |-> <<address, n>>, programId |-> pid]

\* loadTokenSwapInfo, from the point where getAccountInfo has resolved
loadTokenSwapInfo(info, address, pid) ==
    LET loaded == loadAccount(info, pid)
        tokenSwapData == TokenSwapLayout_decode(loaded.ret.bytes)
        authority == createProgramAddress(address, tokenSwapData.nonce, pid)
    IN  IF loaded.ret.kind = "throw" THEN loaded
        ELSE IF tokenSwapData.isInitialized = 0
        THEN [ret |-> Throw("Invalid token swap state"),
              checks |-> loaded.checks]
        ELSE IF authority.kind = "throw"
        THEN [ret |-> authority,
              checks |-> Append(loaded.checks, "initialized")]
        ELSE [ret |-> Return(
                 [class |-> "TokenSwapInfo", programId |-> pid,
                  swapInfo |-> address, authority |-> authority,
                  tokenAccountA |-> tokenSwapData.body.tokenAccountA,
                  tokenAccountB |-> tokenSwapData.body.tokenAccountB,
                  mintA |-> tokenSwapData.body.mintA,
                  mintB |-> tokenSwapData.body.mintB,
                  poolMint |-> tokenSwapData.body.tokenPool,
                  feeAccount |-> tokenSwapData.body.feeAccount]),
              checks |-> Append(loaded.checks, "initialized")]

\* the stable-swap state test without its isPaused half
stableSwapUsableIgnoringPause(stableSwapData) ==
    ~(stableSwapData.isInitialized = 0)

\* the negation of the test that makes loadSaberStableSwap throw
stableSwapUsable(stableSwapData) ==
    ~(stableSwapData.isInitialized = 0 \/ stableSwapData.isPaused # 0)

\* loadSaberStableSwap, from the point where getAccountInfo has resolved
loadSaberStableSwap(info, address, pid) ==
    LET loaded == loadAccount(info, pid)
        stableSwapData == StableSwapLayout_decode(loaded.ret.bytes)
        authority == createProgramAddress(address, stableSwapData.nonce, pid)
    IN  IF loaded.ret.kind = "throw" THEN loaded
        ELSE IF ~stableSwapUsable(stableSwapData)
        THEN [ret |-> Throw("Invalid token swap state"),
              checks |-> loaded.checks]
        ELSE IF authority.kind = "throw"
        THEN [ret |-> authority,
              checks |-> Append(loaded.checks, "initialized")]
        ELSE [ret |-> Return(
                 [class |-> "SaberStableSwapInfo", programId |-> pid,
                  swapInfo |-> address, authority |-> authority,
                  tokenAccountA |-> stableSwapData.body.tokenAccountA,
                  mintA |-> stableSwapData.body.mintA,
                  adminFeeAccountA |-> stableSwapData.body.adminFeeAccountA,
                  tokenAccountB |-> stableSwapData.body.tokenAccountB,
                  mintB |-> stableSwapData.body.mintB,
                  adminFeeAccountB |-> stableSwapData.body.adminFeeAccountB]),
              checks |-> Append(loaded.checks, "initialized")]

Loaders == {"loadAccount", "loadTokenSwapInfo", "loadSaberStableSwap"}

IssueRpc(r) == rpcCount' = [rpcCount EXCEPT ![r] = @ + 1]

\* the first statement of every loader: connection.getAccountInfo(address)
GetAccountInfo ==
    /\ helper \in Loaders
    /\ pc = "start"
    /\ IssueRpc("getAccountInfo")
    /\ pc' = "awaitAccountInfo"
    /\ UNCHANGED <<numVars, clientVars, restVars, helper, accountInfo, programId, onCurve,
                   rejected, checks, lamports, retries, nonce, ret>>

\* an awaited request rejects: the exception leaves the helper
RpcRejects ==
    /\ pc \in {"awaitAccountInfo", "awaitAirdrop", "awaitBalance"}
    /\ rejected' = TRUE
    /\ ret' = Throw("rpc request failed")
    /\ pc' = "done"
    /\ UNCHANGED <<numVars, clientVars, restVars, helper, accountInfo, programId, onCurve,
                   rpcCount, checks, lamports, retries, nonce>>

Resume(outcome) ==
    /\ ret' = outcome.ret
    /\ checks' = outcome.checks
    /\ pc' = "done"
    /\ UNCHANGED <<numVars, clientVars, restVars, helper, accountInfo, programId, onCurve,
                   rpcCount, rejected, lamports, retries, nonce>>

LoadAccountResumes ==
    /\ helper = "loadAccount"
    /\ pc = "awaitAccountInfo"
    /\ Resume(loadAccount(accountInfo, programId))

LoadTokenSwapInfoResumes ==
    /\ helper = "loadTokenSwapInfo"
    /\ pc = "awaitAccountInfo"
    /\ Resume(loadTokenSwapInfo(accountInfo, "address", programId))

LoadSaberStableSwapResumes ==
    /\ helper = "loadSaberStableSwap"
    /\ pc = "awaitAccountInfo"
    /\ Resume(loadSaberStableSwap(accountInfo, "address", programId))

(***************************************************************************)
(* RPC helpers: newAccountWithLamports and the vault-signer nonce search   *)
(***************************************************************************)
Retries == 30

\* airdrop amounts asked for
LamportSamples == {1000000, 2000000}

\* balances the node can report for the new account: nothing yet, the
\* airdrop, or more than the airdrop
Balances(asked) == {0, asked, asked + 1}

\* the countdown test written with a post-decrement
exhaustedPostDecrement(r) == r <= 0

\* `--retries <= 0`, r being the value before the decrement
exhausted(r) == r - 1 <= 0

\* the loop's test read as "the airdrop has arrived"
balanceMatchesAtLeast(asked, balance) == balance >= asked

\* `lamports == (await connection.getBalance(account.publicKey))`
balanceMatches(asked, balance) == asked = balance

\* new Error(`Airdrop of ${lamports} failed`)
AirdropFailed(asked) ==
    Throw("Airdrop of " \o ToString(asked) \o " failed")

\* the balances reported so far, each once, in the order first reported
Reported(seen, balance) ==
    IF \E i \in 1..Len(seen) : seen[i] = balance
    THEN seen
    ELSE Append(seen, balance)

\* new Account(); retries = 30; connection.requestAirdrop(...)
RequestAirdrop ==
    /\ helper = "newAccountWithLamports"
    /\ pc = "start"
    /\ retries' = Retries
    /\ IssueRpc("requestAirdrop")
    /\ pc' = "awaitAirdrop"
    /\ UNCHANGED <<numVars, clientVars, restVars, helper, accountInfo, programId, onCurve,
                   rejected, checks, lamports, nonce, ret>>

\* the airdrop request resolves and the loop is entered
AirdropResumes ==
    /\ helper = "newAccountWithLamports"
    /\ pc = "awaitAirdrop"
    /\ pc' = "sleep"
    /\ UNCHANGED <<numVars, clientVars, restVars, helper, accountInfo, programId, onCurve,
                   rpcCount, rejected, checks, lamports, retries, nonce, ret>>

\* await sleep(500), then connection.getBalance(account.publicKey)
SleepThenGetBalance ==
    /\ helper = "newAccountWithLamports"
    /\ pc = "sleep"
    /\ IssueRpc("getBalance")
    /\ pc' = "awaitBalance"
    /\ UNCHANGED <<numVars, clientVars, restVars, helper, accountInfo, programId, onCurve,
                   rejected, checks, lamports, retries, nonce, ret>>

\* getBalance resolves: return on an exact match, otherwise count down
BalanceResumes ==
    /\ helper = "newAccountWithLamports"
    /\ pc = "awaitBalance"
    /\ \E balance \in Balances(lamports) :
          /\ checks' = Reported(checks, balance)
          /\ IF balanceMatches(lamports, balance)
             THEN /\ ret' = Return("account")
                  /\ pc' = "done"
                  /\ UNCHANGED retries
             ELSE /\ retries' = retries - 1
                  /\ IF exhausted(retries)
                     THEN /\ ret' = AirdropFailed(lamports)
                          /\ pc' = "done"
                     ELSE /\ pc' = "sleep"
                          /\ UNCHANGED ret
    /\ UNCHANGED <<numVars, clientVars, restVars, helper, accountInfo, programId, onCurve,
                   rpcCount, rejected, lamports, nonce>>

\* one turn of getVaultOwnerAndNonce's while (true): derive the address
\* with the current nonce, return it, or catch the error and add one
TryNonce ==
    /\ helper = "getVaultOwnerAndNonce"
    /\ pc = "start"
    /\ LET vaultOwner ==
               createProgramAddress("serumMarket", nonce, "serumDexProgram")
       IN  IF vaultOwner.kind = "throw"
           THEN /\ nonce' = nonce + 1
                /\ UNCHANGED <<pc, ret>>
           ELSE /\ ret' = Return(<<vaultOwner, nonce>>)
                /\ pc' = "done"
                /\ UNCHANGED nonce
    /\ UNCHANGED <<numVars, clientVars, restVars, helper, accountInfo, programId, onCurve,
                   rpcCount, rejected, checks, lamports, retries>>

Helpers == Loaders \cup {"newAccountWithLamports", "getVaultOwnerAndNonce"}

InitHelpers ==
    /\ NumberIdle
    /\ ClientIdle
    /\ RestIdle
    /\ helper \in Helpers
    /\ pc = "start"
    /\ rpcCount = NoRpc
    /\ rejected = FALSE
    /\ checks = <<>>
    /\ retries = 0
    /\ nonce = 0
    /\ ret = Pending
    /\ IF helper \in Loaders
       THEN /\ accountInfo \in AccountInfos
            /\ programId \in Programs
       ELSE /\ accountInfo = NULL
            /\ programId = "none"
    /\ IF helper = "newAccountWithLamports"
       THEN /\ lamports \in LamportSamples
            /\ onCurve = {}
       ELSE /\ lamports = 0
            /\ onCurve \in SUBSET (0..(MaxNonce - 1))

NextHelpers ==
    \/ GetAccountInfo
    \/ RpcRejects
    \/ LoadAccountResumes
    \/ LoadTokenSwapInfoResumes
    \/ LoadSaberStableSwapResumes
    \/ RequestAirdrop
    \/ AirdropResumes
    \/ SleepThenGetBalance
    \/ BalanceResumes
    \/ TryNonce

SpecHelpers == InitHelpers /\ [][NextHelpers]_vars

\* the event loop runs a continuation whose promise has settled, and an
\* awaited request or timer settles (it resolves or it rejects)
SpecHelpersFair == SpecHelpers /\ WF_vars(NextHelpers)

(***************************************************************************)
(* Claims about the RPC helpers                                            *)
(***************************************************************************)
\* C3: loadAccount returns the account data only when the account exists
\* and its owner is the expected program; a missing account gives 'Failed
\* to find account', a foreign owner gives 'Invalid owner', existence is
\* checked first and no data is returned on either error.
C3_LoadAccount ==
    (helper = "loadAccount" /\ pc = "done" /\ ~rejected) =>
        IF accountInfo = NULL
        THEN ret = Throw("Failed to find account") /\ checks = <<>>
        ELSE IF accountInfo.owner # programId
        THEN ret = Throw("Invalid owner") /\ checks = <<"exists">>
        ELSE ret = Buf(accountInfo.data) /\ checks = <<"exists", "owner">>

\* an existing account of a foreign owner was refused
C3_Witness ==
    /\ helper = "loadAccount"
    /\ pc = "done"
    /\ accountInfo # NULL
    /\ ret = Throw("Invalid owner")

\* the state loadTokenSwapInfo / loadSaberStableSwap read from the account
Initialized(info) ==
    IF helper = "loadTokenSwapInfo"
    THEN info.data.header[2] # 0
    ELSE info.data.header[1] # 0 /\ info.data.header[2] = 0

\* C4: a venue info object is only built from an initialized (and, for the
\* stable swap, unpaused) account; otherwise the loader throws, after
\* loadAccount's two checks have passed, and returns no info object.
C4_OnlyInitialized ==
    (helper \in {"loadTokenSwapInfo", "loadSaberStableSwap"}
        /\ pc = "done") =>
        /\ ret.kind = "return" =>
              /\ accountInfo # NULL
              /\ accountInfo.owner = programId
              /\ Initialized(accountInfo)
        /\ (/\ ~rejected
            /\ accountInfo # NULL
            /\ accountInfo.owner = programId
            /\ ~Initialized(accountInfo)) =>
              /\ ret = Throw("Invalid token swap state")
              /\ checks = <<"exists", "owner">>

\* an initialized but paused stable swap was refused after both checks
C4_Witness ==
    /\ helper = "loadSaberStableSwap"
    /\ pc = "done"
    /\ accountInfo # NULL
    /\ accountInfo.data.header[1] = 1
    /\ accountInfo.data.header[2] = 1
    /\ checks = <<"exists", "owner">>
    /\ ret = Throw("Invalid token swap state")

\* C10 as stated: no helper retries or polls, every RPC request is issued
\* at most once in one invocation.
C10_NoRequestRepeated ==
    \A r \in RpcNames : rpcCount[r] <= 1

\* the nonces tried and found unusable before the current one
FailedNonces == {n \in 0..(nonce - 1) : n \in onCurve}

\* C10 amended: the loaders issue their request once and a rejected request
\* ends the helper with an error at once; newAccountWithLamports asks for
\* the airdrop once but polls getBalance up to 30 times and reports the
\* failure only after the 30th unmatched check; the nonce search catches a
\* failed derivation and goes on with the next nonce, it never throws.
C10_BoundedPolling ==
    /\ rpcCount["getAccountInfo"] <= 1
    /\ rpcCount["requestAirdrop"] <= 1
    /\ rpcCount["getBalance"] <= Retries
    /\ rejected => (pc = "done" /\ ret = Throw("rpc request failed"))
    /\ ret = AirdropFailed(lamports) => rpcCount["getBalance"] = Retries
    /\ helper = "getVaultOwnerAndNonce" =>
          /\ FailedNonces = 0..(nonce - 1)
          /\ pc = "done" => (ret.kind = "return" /\ nonce \notin onCurve)

\* the balance never matched and the helper gave up after thirty polls
C10_Witness ==
    /\ helper = "newAccountWithLamports"
    /\ pc = "done"
    /\ rpcCount["getBalance"] = Retries
    /\ ret = AirdropFailed(lamports)

\* what newAccountWithLamports has done so far in its invocation
AirdropPolling ==
    helper = "newAccountWithLamports" =>
        /\ rpcCount["requestAirdrop"] <= 1
        /\ rpcCount["getBalance"] <= 30
        /\ rpcCount["getBalance"] > 0 => rpcCount["requestAirdrop"] = 1
        /\ (pc # "done" \/ rejected) => ret \in {Pending, Throw("rpc request failed")}
        /\ (pc = "done" /\ ~rejected) =>
              /\ ret \in {Return("account"), AirdropFailed(lamports)}
              /\ ret = Return("account") <=>
                    (checks # <<>> /\ checks[Len(checks)] = lamports)
              /\ ret = AirdropFailed(lamports) =>
                    rpcCount["getBalance"] = 30
        /\ \A i \in 1..(Len(checks) - 1) : checks[i] # lamports

\* C30: newAccountWithLamports always terminates: it requests the airdrop
\* once, then checks the balance at most 30 times; it returns the new
\* account at the first check where the balance equals the requested
\* lamports exactly, and throws 'Airdrop of <lamports> failed' after the
\* 30th check if no check matched, including when the balance is larger
\* than requested.
C30_AirdropTerminates ==
    /\ []AirdropPolling
    /\ (helper = "newAccountWithLamports") ~> (pc = "done")

\* thirty checks, a balance above the amount asked for among them, none
\* equal to it, and the helper threw with the amount in the message
C30_Witness ==
    /\ helper = "newAccountWithLamports"
    /\ pc = "done"
    /\ lamports = 1000000
    /\ rpcCount["getBalance"] = 30
    /\ checks = <<1000001, 0>>
    /\ ret = Throw("Airdrop of 1000000 failed")

(***************************************************************************)
(* Account metas, data layouts and instructions                            *)
(***************************************************************************)
Key(pubkey, isSigner, isWritable) ==
    [pubkey |-> pubkey, isSigner |-> isSigner, isWritable |-> isWritable]

\* BufferLayout.u8(property) and uint64(property) = BufferLayout.blob(8, ..)
u8(property) == [property |-> property, span |-> 1]

uint64(property) == [property |-> property, span |-> 8]

RECURSIVE SumSpans(_)
SumSpans(layout) ==
    IF layout = <<>> THEN 0 ELSE Head(layout).span + SumSpans(Tail(layout))

\* BufferLayout.struct(fields).span
Layout_span(layout) == SumSpans(layout)

\* offset of field i of a struct: the spans of the fields before it
Layout_offset(layout, i) == SumSpans(SubSeq(layout, 1, i - 1))

\* the byte field f of a struct writes at position k (from 0) of its span
FieldByte(f, value, k) == IF f.span = 1 THEN value ELSE value.bytes[k + 1]

\* data = Buffer.alloc(dataLayout.span); dataLayout.encode(dataMap, data):
\* every field writes its value at its own offset of the zeroed buffer
Layout_encode(layout, dataMap) ==
    [b \in 1..Layout_span(layout) |->
        LET i == CHOOSE j \in 1..Len(layout) :
                    /\ Layout_offset(layout, j) < b
                    /\ b <= Layout_offset(layout, j) + layout[j].span
        IN  FieldByte(layout[i], dataMap[layout[i].property],
                      b - 1 - Layout_offset(layout, i))]

TransactionInstruction(keys, pid, data) ==
    [kind |-> "instruction", keys |-> keys, programId |-> pid, data |-> data]

\* the amounts of a dataMap whose toBuffer() call threw, in layout order
ThrownFields(layout, dataMap) ==
    SelectSeq([i \in 1..Len(layout) |-> layout[i]],
              LAMBDA f : f.span = 8 /\ dataMap[f.property].kind = "throw")

\* the tail shared by every make*Instruction: the dataMap is evaluated
\* first (a failing toBuffer() throws out of the builder), then the data
\* buffer is allocated and encoded and the instruction is constructed
Assemble(dataLayout, dataMap, keys, pid) ==
    IF ThrownFields(dataLayout, dataMap) # <<>>
    THEN dataMap[Head(ThrownFields(dataLayout, dataMap)).property]
    ELSE TransactionInstruction(keys, pid,
                                Layout_encode(dataLayout, dataMap))

(***************************************************************************)
(* Venue key lists (onesol-protocol.ts)                                    *)
(***************************************************************************)
SYSVAR_RENT_PUBKEY == "SysvarRent"

SYSVAR_CLOCK_PUBKEY == "SysvarClock"

TOKEN_PROGRAM_ID == "TokenProgram"

ONESOL_PROTOCOL_PROGRAM_ID == "1SoLTvbiicqXZ3MJmnTL2WYXKLYpuxwHpa4yYrVQaMZ"

TokenSwapInfo_toKeys(this) ==
    <<Key(this.swapInfo, FALSE, FALSE),
      Key(this.authority, FALSE, FALSE),
      Key(this.tokenAccountA, FALSE, TRUE),
      Key(this.tokenAccountB, FALSE, TRUE),
      Key(this.poolMint, FALSE, TRUE),
      Key(this.feeAccount, FALSE, TRUE),
      Key(this.programId, FALSE, FALSE)>>

SerumDexMarketInfo_toKeys(this) ==
    <<Key(this.market, FALSE, TRUE),
      Key(this.requestQueue, FALSE, TRUE),
      Key(this.eventQueue, FALSE, TRUE),
      Key(this.bids, FALSE, TRUE),
      Key(this.asks, FALSE, TRUE),
      Key(this.coinVault, FALSE, TRUE),
      Key(this.pcVault, FALSE, TRUE),
      Key(this.vaultSigner, FALSE, FALSE),
      Key(this.openOrders, FALSE, TRUE),
      Key(SYSVAR_RENT_PUBKEY, FALSE, FALSE),
      Key(this.programId, FALSE, FALSE)>>

SaberStableSwapInfo_toKeys(this, sourceMint) ==
    <<Key(this.swapInfo, FALSE, FALSE),
      Key(this.authority, FALSE, FALSE),
      Key(this.tokenAccountA, FALSE, TRUE),
      Key(this.tokenAccountB, FALSE, TRUE)>>
    \o (IF sourceMint = this.mintA
        THEN <<Key(this.adminFeeAccountB, FALSE, TRUE)>>
        ELSE <<Key(this.adminFeeAccountA, FALSE, TRUE)>>)
    \o <<Key(SYSVAR_CLOCK_PUBKEY, FALSE, FALSE),
         Key(this.programId, FALSE, FALSE)>>

RaydiumAmmInfo_toKeys(this) ==
    <<Key(this.ammInfo, FALSE, TRUE),
      Key(this.authority, FALSE, FALSE),
      Key(this.ammOpenOrders, FALSE, TRUE),
      Key(this.ammTargetOrders, FALSE, TRUE),
      Key(this.poolCoinTokenAccount, FALSE, TRUE),
      Key(this.poolPcTokenAccount, FALSE, TRUE),
      Key(this.serumProgramId, FALSE, FALSE),
      Key(this.serumMarket, FALSE, TRUE),
      Key(this.serumBids, FALSE, TRUE),
      Key(this.serumAsks, FALSE, TRUE),
      Key(this.serumEventQueue, FALSE, TRUE),
      Key(this.serumCoinVaultAccount, FALSE, TRUE),
      Key(this.serumPcVaultAccount, FALSE, TRUE),
      Key(this.serumVaultSigner, FALSE, FALSE),
      Key(this.programId, FALSE, FALSE)>>

(***************************************************************************)
(* The venue objects and parameters a caller passes                        *)
(***************************************************************************)
Mints == {"mintA", "mintB", "mintC"}

TokenSwapInfos ==
    {[programId |-> "tokenSwapProgram", swapInfo |-> "ts.swapInfo",
      authority |-> "ts.authority", tokenAccountA |-> "ts.tokenAccountA",
      tokenAccountB |-> "ts.tokenAccountB", mintA |-> "mintA",
      mintB |-> "mintB", poolMint |-> "ts.poolMint",
      feeAccount |-> "ts.feeAccount"]}

SerumDexMarketInfos ==
    {[market |-> "dex.market", requestQueue |-> "dex.requestQueue",
      eventQueue |-> "dex.eventQueue", bids |-> "dex.bids",
      asks |-> "dex.asks", coinVault |-> "dex.coinVault",
      pcVault |-> "dex.pcVault", vaultSigner |-> "dex.vaultSigner",
      openOrders |-> "dex.openOrders", programId |-> "serumDexProgram"]}

SaberStableSwapInfos ==
    {[programId |-> "stableSwapProgram", swapInfo |-> "ss.swapInfo",
      authority |-> "ss.authority", tokenAccountA |-> "ss.tokenAccountA",
      mintA |-> "mintA", adminFeeAccountA |-> "ss.adminFeeAccountA",
      tokenAccountB |-> "ss.tokenAccountB", mintB |-> "mintB",
      adminFeeAccountB |-> "ss.adminFeeAccountB"]}

RaydiumAmmInfos ==
    {[programId |-> "raydiumProgram", ammInfo |-> "ray.ammInfo",
      authority |-> "ray.authority", ammOpenOrders |-> "ray.ammOpenOrders",
      ammTargetOrders |-> "ray.ammTargetOrders",
      poolCoinTokenAccount |-> "ray.poolCoinTokenAccount",
      poolPcTokenAccount |-> "ray.poolPcTokenAccount",
      serumProgramId |-> "serumDexProgram", serumMarket |-> "ray.serumMarket",
      serumBids |-> "ray.serumBids", serumAsks |-> "ray.serumAsks",
      serumEventQueue |-> "ray.serumEventQueue",
      serumCoinVaultAccount |-> "ray.serumCoinVaultAccount",
      serumPcVaultAccount |-> "ray.serumPcVaultAccount",
      serumVaultSigner |-> "ray.serumVaultSigner"]}

\* amounts a caller passes: 258, 2^64 - 1 and 2^64
AmountSamples ==
    {<<2, 1>>,
     <<255, 255, 255, 255, 255, 255, 255, 255>>,
     <<0, 0, 0, 0, 0, 0, 0, 0, 1>>}

\* an amount parameter the method called does not take
NoAmount == <<>>

\* the parameter objects of the create*Instruction methods of one kind
CallerParams(kind, mints) ==
    {c \in [fromTokenAccountKey : {"userSourceToken"},
            toTokenAccountKey : {"userDestinationToken"},
            fromMintKey : mints,
            toMintKey : {"mintB"},
            userTransferAuthority : {"userTransferAuthority"},
            feeTokenAccount : {"feeTokenAccount"},
            swapInfo : {"userSwapInfo"},
            amountIn : AmountSamples \cup {NoAmount},
            expectAmountOut : AmountSamples \cup {NoAmount},
            minimumAmountOut : AmountSamples \cup {NoAmount},
            splTokenSwapInfo : TokenSwapInfos,
            stableSwapInfo : SaberStableSwapInfos,
            raydiumInfo : RaydiumAmmInfos,
            dexMarketInfo : SerumDexMarketInfos] :
        /\ (c.amountIn = NoAmount) <=> (kind = "SwapOut")
        /\ (c.expectAmountOut = NoAmount) <=> (kind = "SwapIn")
        /\ (c.minimumAmountOut = NoAmount) <=> (kind = "SwapIn")}

\* the argument object a create*Instruction method hands to its builder
MakeArgs(c) ==
    [sourceTokenKey |-> c.fromTokenAccountKey,
     sourceMint |-> c.fromMintKey,
     destinationTokenKey |-> c.toTokenAccountKey,
     destinationMint |-> c.toMintKey,
     transferAuthority |-> c.userTransferAuthority,
     feeTokenAccount |-> c.feeTokenAccount,
     swapInfo |-> c.swapInfo,
     tokenProgramId |-> protocol.tokenProgramId,
     splTokenSwapInfo |-> c.splTokenSwapInfo,
     stableSwapInfo |-> c.stableSwapInfo,
     raydiumInfo |-> c.raydiumInfo,
     dexMarketInfo |-> c.dexMarketInfo,
     amountIn |-> c.amountIn,
     expectAmountOut |-> c.expectAmountOut,
     minimumAmountOut |-> c.minimumAmountOut,
     programId |-> protocol.programId]

\* a push that puts the new instruction in front of the caller's list
PushFront(method, kind, venue, c, made) ==
    /\ nCalls < MaxBuilds
    /\ nCalls' = nCalls + 1
    /\ lastCall' = [method |-> method, kind |-> kind, venue |-> venue,
                    params |-> c, instructionsBefore |-> instructions,
                    signersBefore |-> signers]
    /\ IF made.kind = "throw"
       THEN /\ lastRet' = made
            /\ UNCHANGED instructions
       ELSE /\ lastRet' = Return("undefined")
            /\ instructions' = <<made>> \o instructions
    /\ UNCHANGED <<numVars, helperVars, restVars, protocol, signers>>

\* a push that runs although the builder threw
PushThrown(method, kind, venue, c, made) ==
    /\ nCalls < MaxBuilds
    /\ nCalls' = nCalls + 1
    /\ lastCall' = [method |-> method, kind |-> kind, venue |-> venue,
                    params |-> c, instructionsBefore |-> instructions,
                    signersBefore |-> signers]
    /\ lastRet' = IF made.kind = "throw" THEN made ELSE Return("undefined")
    /\ instructions' = Append(instructions, made)
    /\ UNCHANGED <<numVars, helperVars, restVars, protocol, signers>>

\* instructions.push(await make...(...)): a builder that throws rejects the
\* method before push is reached
Push(method, kind, venue, c, made) ==
    /\ nCalls < MaxBuilds
    /\ nCalls' = nCalls + 1
    /\ lastCall' = [method |-> method, kind |-> kind, venue |-> venue,
                    params |-> c, instructionsBefore |-> instructions,
                    signersBefore |-> signers]
    /\ IF made.kind = "throw"
       THEN /\ lastRet' = made
            /\ UNCHANGED instructions
       ELSE /\ lastRet' = Return("undefined")
            /\ instructions' = Append(instructions, made)
    /\ UNCHANGED <<numVars, helperVars, restVars, protocol, signers>>

(***************************************************************************)
(* OneSolProtocol (onesol-protocol.ts)                                     *)
(***************************************************************************)
makeSwapByTokenSwapInstruction(a) ==
    LET dataLayout ==
            <<u8("instruction"),
              uint64("amountIn"),
              uint64("expectAmountOut"),
              uint64("minimumAmountOut")>>
        dataMap ==
            [instruction |-> 3,
             amountIn |-> toBuffer(a.amountIn),
             expectAmountOut |-> toBuffer(a.expectAmountOut),
             minimumAmountOut |-> toBuffer(a.minimumAmountOut)]
        keys ==
            <<Key(a.sourceTokenKey, FALSE, TRUE),
              Key(a.destinationTokenKey, FALSE, TRUE),
              Key(a.transferAuthority, TRUE, FALSE),
              Key(a.tokenProgramId, FALSE, FALSE),
              Key(a.feeTokenAccount, FALSE, TRUE)>>
            \o TokenSwapInfo_toKeys(a.splTokenSwapInfo)
    IN  Assemble(dataLayout, dataMap, keys, a.programId)

createSwapByTokenSwapInstruction ==
    \E c \in CallerParams("Swap", {"mintA"}) :
        Push("createSwapByTokenSwapInstruction",
             "Swap", "TokenSwap", c,
             makeSwapByTokenSwapInstruction(MakeArgs(c)))

makeSwapInByTokenSwapInstruction(a) ==
    LET dataLayout ==
            <<u8("instruction"),
              uint64("amountIn")>>
        dataMap ==
            [instruction |-> 12,
             amountIn |-> toBuffer(a.amountIn)]
        keys ==
            <<Key(a.sourceTokenKey, FALSE, TRUE),
              Key(a.destinationTokenKey, FALSE, TRUE),
              Key(a.transferAuthority, TRUE, FALSE),
              Key(a.swapInfo, FALSE, TRUE),
              Key(a.tokenProgramId, FALSE, FALSE)>>
            \o TokenSwapInfo_toKeys(a.splTokenSwapInfo)
    IN  Assemble(dataLayout, dataMap, keys, a.programId)

createSwapInByTokenSwapInstruction ==
    \E c \in CallerParams("SwapIn", {"mintA"}) :
        Push("createSwapInByTokenSwapInstruction",
             "SwapIn", "TokenSwap", c,
             makeSwapInByTokenSwapInstruction(MakeArgs(c)))

\* the token-swap SwapOut builder with its two amounts laid out in the other order
makeSwapOutByTokenSwapInstructionSwapped(a) ==
    LET dataLayout ==
            <<u8("instruction"),
              uint64("minimumAmountOut"),
              uint64("expectAmountOut")>>
        dataMap ==
            [instruction |-> 13,
             expectAmountOut |-> toBuffer(a.expectAmountOut),
             minimumAmountOut |-> toBuffer(a.minimumAmountOut)]
        keys ==
            <<Key(a.sourceTokenKey, FALSE, TRUE),
              Key(a.destinationTokenKey, FALSE, TRUE),
              Key(a.transferAuthority, TRUE, FALSE),
              Key(a.swapInfo, FALSE, TRUE),
              Key(a.tokenProgramId, FALSE, FALSE),
              Key(a.feeTokenAccount, FALSE, TRUE)>>
            \o TokenSwapInfo_toKeys(a.splTokenSwapInfo)
    IN  Assemble(dataLayout, dataMap, keys, a.programId)

makeSwapOutByTokenSwapInstruction(a) ==
    LET dataLayout ==
            <<u8("instruction"),
              uint64("expectAmountOut"),
              uint64("minimumAmountOut")>>
        dataMap ==
            [instruction |-> 13,
             expectAmountOut |-> toBuffer(a.expectAmountOut),
             minimumAmountOut |-> toBuffer(a.minimumAmountOut)]
        keys ==
            <<Key(a.sourceTokenKey, FALSE, TRUE),
              Key(a.destinationTokenKey, FALSE, TRUE),
              Key(a.transferAuthority, TRUE, FALSE),
              Key(a.swapInfo, FALSE, TRUE),
              Key(a.tokenProgramId, FALSE, FALSE),
              Key(a.feeTokenAccount, FALSE, TRUE)>>
            \o TokenSwapInfo_toKeys(a.splTokenSwapInfo)
    IN  Assemble(dataLayout, dataMap, keys, a.programId)

createSwapOutByTokenSwapInstruction ==
    \E c \in CallerParams("SwapOut", {"mintA"}) :
        Push("createSwapOutByTokenSwapInstruction",
             "SwapOut", "TokenSwap", c,
             makeSwapOutByTokenSwapInstruction(MakeArgs(c)))

makeSwapBySaberStableSwapInstruction(a) ==
    LET dataLayout ==
            <<u8("instruction"),
              uint64("amountIn"),
              uint64("expectAmountOut"),
              uint64("minimumAmountOut")>>
        dataMap ==
            [instruction |-> 6,
             amountIn |-> toBuffer(a.amountIn),
             expectAmountOut |-> toBuffer(a.expectAmountOut),
             minimumAmountOut |-> toBuffer(a.minimumAmountOut)]
        keys ==
            <<Key(a.sourceTokenKey, FALSE, TRUE),
              Key(a.destinationTokenKey, FALSE, TRUE),
              Key(a.transferAuthority, TRUE, FALSE),
              Key(a.tokenProgramId, FALSE, FALSE),
              Key(a.feeTokenAccount, FALSE, TRUE)>>
            \o SaberStableSwapInfo_toKeys(a.stableSwapInfo, a.sourceMint)
    IN  Assemble(dataLayout, dataMap, keys, a.programId)

createSwapBySaberStableSwapInstruction ==
    \E c \in CallerParams("Swap", Mints) :
        Push("createSwapBySaberStableSwapInstruction",
             "Swap", "SaberStableSwap", c,
             makeSwapBySaberStableSwapInstruction(MakeArgs(c)))

makeSwapInBySaberStableSwapInstruction(a) ==
    LET dataLayout ==
            <<u8("instruction"),
              uint64("amountIn")>>
        dataMap ==
            [instruction |-> 16,
             amountIn |-> toBuffer(a.amountIn)]
        keys ==
            <<Key(a.sourceTokenKey, FALSE, TRUE),
              Key(a.destinationTokenKey, FALSE, TRUE),
              Key(a.transferAuthority, TRUE, FALSE),
              Key(a.swapInfo, FALSE, TRUE),
              Key(a.tokenProgramId, FALSE, FALSE)>>
            \o SaberStableSwapInfo_toKeys(a.stableSwapInfo, a.sourceMint)
    IN  Assemble(dataLayout, dataMap, keys, a.programId)

createSwapInBySaberStableSwapInstruction ==
    \E c \in CallerParams("SwapIn", Mints) :
        Push("createSwapInBySaberStableSwapInstruction",
             "SwapIn", "SaberStableSwap", c,
             makeSwapInBySaberStableSwapInstruction(MakeArgs(c)))

makeSwapOutBySaberStableSwapInstruction(a) ==
    LET dataLayout ==
            <<u8("instruction"),
              uint64("expectAmountOut"),
              uint64("minimumAmountOut")>>
        dataMap ==
            [instruction |-> 17,
             expectAmountOut |-> toBuffer(a.expectAmountOut),
             minimumAmountOut |-> toBuffer(a.minimumAmountOut)]
        keys ==
            <<Key(a.sourceTokenKey, FALSE, TRUE),
              Key(a.destinationTokenKey, FALSE, TRUE),
              Key(a.transferAuthority, TRUE, FALSE),
              Key(a.swapInfo, FALSE, TRUE),
              Key(a.tokenProgramId, FALSE, FALSE),
              Key(a.feeTokenAccount, FALSE, TRUE)>>
            \o SaberStableSwapInfo_toKeys(a.stableSwapInfo, a.sourceMint)
    IN  Assemble(dataLayout, dataMap, keys, a.programId)

createSwapOutBySaberStableSwapInstruction ==
    \E c \in CallerParams("SwapOut", Mints) :
        Push("createSwapOutBySaberStableSwapInstruction",
             "SwapOut", "SaberStableSwap", c,
             makeSwapOutBySaberStableSwapInstruction(MakeArgs(c)))

\* the Raydium Swap builder with the fee account ahead of the token program
makeSwapByRaydiumSwapInstructionFeeFirst(a) ==
    LET dataLayout ==
            <<u8("instruction"),
              uint64("amountIn"),
              uint64("expectAmountOut"),
              uint64("minimumAmountOut")>>
        dataMap ==
            [instruction |-> 9,
             amountIn |-> toBuffer(a.amountIn),
             expectAmountOut |-> toBuffer(a.expectAmountOut),
             minimumAmountOut |-> toBuffer(a.minimumAmountOut)]
        keys ==
            <<Key(a.sourceTokenKey, FALSE, TRUE),
              Key(a.destinationTokenKey, FALSE, TRUE),
              Key(a.transferAuthority, TRUE, FALSE),
              Key(a.feeTokenAccount, FALSE, TRUE),
              Key(a.tokenProgramId, FALSE, FALSE)>>
            \o RaydiumAmmInfo_toKeys(a.raydiumInfo)
    IN  Assemble(dataLayout, dataMap, keys, a.programId)

makeSwapByRaydiumSwapInstruction(a) ==
    LET dataLayout ==
            <<u8("instruction"),
              uint64("amountIn"),
              uint64("expectAmountOut"),
              uint64("minimumAmountOut")>>
        dataMap ==
            [instruction |-> 9,
             amountIn |-> toBuffer(a.amountIn),
             expectAmountOut |-> toBuffer(a.expectAmountOut),
             minimumAmountOut |-> toBuffer(a.minimumAmountOut)]
        keys ==
            <<Key(a.sourceTokenKey, FALSE, TRUE),
              Key(a.destinationTokenKey, FALSE, TRUE),
              Key(a.transferAuthority, TRUE, FALSE),
              Key(a.tokenProgramId, FALSE, FALSE),
              Key(a.feeTokenAccount, FALSE, TRUE)>>
            \o RaydiumAmmInfo_toKeys(a.raydiumInfo)
    IN  Assemble(dataLayout, dataMap, keys, a.programId)

createSwapByRaydiumSwapInstruction ==
    \E c \in CallerParams("Swap", {"mintA"}) :
        Push("createSwapByRaydiumSwapInstruction",
             "Swap", "RaydiumSwap", c,
             makeSwapByRaydiumSwapInstruction(MakeArgs(c)))

makeSwapInByRaydiumSwapInstruction(a) ==
    LET dataLayout ==
            <<u8("instruction"),
              uint64("amountIn")>>
        dataMap ==
            [instruction |-> 18,
             amountIn |-> toBuffer(a.amountIn)]
        keys ==
            <<Key(a.sourceTokenKey, FALSE, TRUE),
              Key(a.destinationTokenKey, FALSE, TRUE),
              Key(a.transferAuthority, TRUE, FALSE),
              Key(a.swapInfo, TRUE, TRUE),
              Key(a.tokenProgramId, FALSE, FALSE)>>
            \o RaydiumAmmInfo_toKeys(a.raydiumInfo)
    IN  Assemble(dataLayout, dataMap, keys, a.programId)

createSwapInByRaydiumSwapInstruction ==
    \E c \in CallerParams("SwapIn", {"mintA"}) :
        Push("createSwapInByRaydiumSwapInstruction",
             "SwapIn", "RaydiumSwap", c,
             makeSwapInByRaydiumSwapInstruction(MakeArgs(c)))

makeSwapOutByRaydiumSwapInstruction(a) ==
    LET dataLayout ==
            <<u8("instruction"),
              uint64("expectAmountOut"),
              uint64("minimumAmountOut")>>
        dataMap ==
            [instruction |-> 19,
             expectAmountOut |-> toBuffer(a.expectAmountOut),
             minimumAmountOut |-> toBuffer(a.minimumAmountOut)]
        keys ==
            <<Key(a.sourceTokenKey, FALSE, TRUE),
              Key(a.destinationTokenKey, FALSE, TRUE),
              Key(a.transferAuthority, TRUE, FALSE),
              Key(a.swapInfo, TRUE, TRUE),
              Key(a.tokenProgramId, FALSE, FALSE),
              Key(a.feeTokenAccount, FALSE, TRUE)>>
            \o RaydiumAmmInfo_toKeys(a.raydiumInfo)
    IN  Assemble(dataLayout, dataMap, keys, a.programId)

createSwapOutByRaydiumSwapInstruction ==
    \E c \in CallerParams("SwapOut", {"mintA"}) :
        Push("createSwapOutByRaydiumSwapInstruction",
             "SwapOut", "RaydiumSwap", c,
             makeSwapOutByRaydiumSwapInstruction(MakeArgs(c)))

makeSwapBySerumDexInstruction(a) ==
    LET dataLayout ==
            <<u8("instruction"),
              uint64("amountIn"),
              uint64("expectAmountOut"),
              uint64("minimumAmountOut")>>
        dataMap ==
            [instruction |-> 4,
             amountIn |-> toBuffer(a.amountIn),
             expectAmountOut |-> toBuffer(a.expectAmountOut),
             minimumAmountOut |-> toBuffer(a.minimumAmountOut)]
        keys ==
            <<Key(a.sourceTokenKey, FALSE, TRUE),
              Key(a.destinationTokenKey, FALSE, TRUE),
              Key(a.transferAuthority, TRUE, FALSE),
              Key(a.tokenProgramId, FALSE, FALSE),
              Key(a.feeTokenAccount, FALSE, TRUE)>>
            \o SerumDexMarketInfo_toKeys(a.dexMarketInfo)
    IN  Assemble(dataLayout, dataMap, keys, a.programId)

createSwapBySerumDexInstruction ==
    \E c \in CallerParams("Swap", {"mintA"}) :
        Push("createSwapBySerumDexInstruction",
             "Swap", "SerumDex", c,
             makeSwapBySerumDexInstruction(MakeArgs(c)))

makeSwapInBySerumDexInstruction(a) ==
    LET dataLayout ==
            <<u8("instruction"),
              uint64("amountIn")>>
        dataMap ==
            [instruction |-> 14,
             amountIn |-> toBuffer(a.amountIn)]
        keys ==
            <<Key(a.sourceTokenKey, FALSE, TRUE),
              Key(a.destinationTokenKey, FALSE, TRUE),
              Key(a.transferAuthority, TRUE, FALSE),
              Key(a.swapInfo, TRUE, TRUE),
              Key(a.tokenProgramId, FALSE, FALSE)>>
            \o SerumDexMarketInfo_toKeys(a.dexMarketInfo)
    IN  Assemble(dataLayout, dataMap, keys, a.programId)

createSwapInBySerumDexInstruction ==
    \E c \in CallerParams("SwapIn", {"mintA"}) :
        Push("createSwapInBySerumDexInstruction",
             "SwapIn", "SerumDex", c,
             makeSwapInBySerumDexInstruction(MakeArgs(c)))

\* the Serum SwapOut builder reusing the SwapIn discriminant
makeSwapOutBySerumDexInstructionAs14(a) ==
    LET dataLayout ==
            <<u8("instruction"),
              uint64("expectAmountOut"),
              uint64("minimumAmountOut")>>
        dataMap ==
            [instruction |-> 14,
             expectAmountOut |-> toBuffer(a.expectAmountOut),
             minimumAmountOut |-> toBuffer(a.minimumAmountOut)]
        keys ==
            <<Key(a.sourceTokenKey, FALSE, TRUE),
              Key(a.destinationTokenKey, FALSE, TRUE),
              Key(a.transferAuthority, TRUE, FALSE),
              Key(a.swapInfo, TRUE, TRUE),
              Key(a.tokenProgramId, FALSE, FALSE),
              Key(a.feeTokenAccount, FALSE, TRUE)>>
            \o SerumDexMarketInfo_toKeys(a.dexMarketInfo)
    IN  Assemble(dataLayout, dataMap, keys, a.programId)

makeSwapOutBySerumDexInstruction(a) ==
    LET dataLayout ==
            <<u8("instruction"),
              uint64("expectAmountOut"),
              uint64("minimumAmountOut")>>
        dataMap ==
            [instruction |-> 15,
             expectAmountOut |-> toBuffer(a.expectAmountOut),
             minimumAmountOut |-> toBuffer(a.minimumAmountOut)]
        keys ==
            <<Key(a.sourceTokenKey, FALSE, TRUE),
              Key(a.destinationTokenKey, FALSE, TRUE),
              Key(a.transferAuthority, TRUE, FALSE),
              Key(a.swapInfo, TRUE, TRUE),
              Key(a.tokenProgramId, FALSE, FALSE),
              Key(a.feeTokenAccount, FALSE, TRUE)>>
            \o SerumDexMarketInfo_toKeys(a.dexMarketInfo)
    IN  Assemble(dataLayout, dataMap, keys, a.programId)

createSwapOutBySerumDexInstruction ==
    \E c \in CallerParams("SwapOut", {"mintA"}) :
        Push("createSwapOutBySerumDexInstruction",
             "SwapOut", "SerumDex", c,
             makeSwapOutBySerumDexInstruction(MakeArgs(c)))

\* keys Keypair.generate() can return
GeneratedKeys == {"generatedKey1", "generatedKey2"}

createSwapInfo ==
    \E swapInfoAccount \in GeneratedKeys :
        LET dataLayout == <<u8("instruction")>>
            dataMap == [instruction |-> 10]
            data == Layout_encode(dataLayout, dataMap)
            keys == <<Key(swapInfoAccount, TRUE, TRUE),
                      Key("owner", TRUE, FALSE)>>
        IN  /\ nCalls < MaxBuilds
            /\ nCalls' = nCalls + 1
            /\ lastCall' = [method |-> "createSwapInfo", kind |-> "Setup",
                            venue |-> "none", params |-> [owner |-> "owner"],
                            instructionsBefore |-> instructions,
                            signersBefore |-> signers]
            /\ instructions' =
                   Append(instructions,
                          TransactionInstruction(keys, protocol.programId,
                                                 data))
            /\ signers' = Append(signers, swapInfoAccount)
            /\ lastRet' = Return(swapInfoAccount)
            /\ UNCHANGED <<numVars, helperVars, restVars, protocol>>

setupSwapInfo ==
    LET keys == <<Key("userSwapInfo", FALSE, TRUE),
                  Key("userTokenAccount", FALSE, TRUE)>>
        dataLayout == <<u8("instruction")>>
        dataMap == [instruction |-> 11]
        data == Layout_encode(dataLayout, dataMap)
    IN  /\ nCalls < MaxBuilds
        /\ nCalls' = nCalls + 1
        /\ lastCall' = [method |-> "setupSwapInfo", kind |-> "Setup",
                        venue |-> "none",
                        params |-> [swapInfo |-> "userSwapInfo",
                                    tokenAccount |-> "userTokenAccount"],
                        instructionsBefore |-> instructions,
                        signersBefore |-> signers]
        /\ instructions' =
               Append(instructions,
                      TransactionInstruction(keys, protocol.programId, data))
        /\ lastRet' = Return("undefined")
        /\ UNCHANGED <<numVars, helperVars, restVars, protocol, signers>>

\* an instruction the caller put in the list before using the client
PriorInstruction ==
    TransactionInstruction(<<Key("payer", TRUE, TRUE)>>, "SystemProgram",
                           <<0>>)

\* OneSolProtocol.createOneSolProtocol({connection, wallet, programId})
createOneSolProtocol(wallet, pid) ==
    [programId |-> pid, tokenProgramId |-> TOKEN_PROGRAM_ID,
     wallet |-> wallet]

InitProtocol ==
    /\ NumberIdle
    /\ HelpersIdle
    /\ RestIdle
    /\ protocol \in {createOneSolProtocol("wallet", pid) :
                        pid \in {ONESOL_PROTOCOL_PROGRAM_ID, "customProgram"}}
    /\ instructions \in {<<>>, <<PriorInstruction>>}
    /\ signers = IF instructions = <<>> THEN <<>> ELSE <<"payer">>
    /\ lastCall = NULL
    /\ lastRet = Pending
    /\ nCalls = 0

NextProtocol ==
    \/ createSwapInfo
    \/ setupSwapInfo
    \/ createSwapByTokenSwapInstruction
    \/ createSwapInByTokenSwapInstruction
    \/ createSwapOutByTokenSwapInstruction
    \/ createSwapBySaberStableSwapInstruction
    \/ createSwapInBySaberStableSwapInstruction
    \/ createSwapOutBySaberStableSwapInstruction
    \/ createSwapByRaydiumSwapInstruction
    \/ createSwapInByRaydiumSwapInstruction
    \/ createSwapOutByRaydiumSwapInstruction
    \/ createSwapBySerumDexInstruction
    \/ createSwapInBySerumDexInstruction
    \/ createSwapOutBySerumDexInstruction

SpecProtocol == InitProtocol /\ [][NextProtocol]_vars

(***************************************************************************)
(* Claims about the instructions built by onesol-protocol.ts               *)
(***************************************************************************)
\* the last call returned, so it appended an instruction
Built == lastCall # NULL /\ lastRet.kind = "return"

LastInstruction == instructions[Len(instructions)]

\* the venue key list the last call was given
VenueKeys ==
    LET c == lastCall.params
    IN  CASE lastCall.venue = "TokenSwap" ->
                 TokenSwapInfo_toKeys(c.splTokenSwapInfo)
          [] lastCall.venue = "SaberStableSwap" ->
                 SaberStableSwapInfo_toKeys(c.stableSwapInfo, c.fromMintKey)
          [] lastCall.venue = "RaydiumSwap" ->
                 RaydiumAmmInfo_toKeys(c.raydiumInfo)
          [] lastCall.venue = "SerumDex" ->
                 SerumDexMarketInfo_toKeys(c.dexMarketInfo)

VenueKeyCount ==
    CASE lastCall.venue = "TokenSwap" -> 7
      [] lastCall.venue = "SaberStableSwap" -> 7
      [] lastCall.venue = "RaydiumSwap" -> 15
      [] lastCall.venue = "SerumDex" -> 11

\* C6: a Swap instruction of any of the four venues has the keys
\* sourceToken (writable), destinationToken (writable), transferAuthority
\* (signer, read-only), tokenProgramId (read-only), feeTokenAccount
\* (writable), followed by the venue's toKeys() list unchanged; its length
\* is 5 plus the venue key count.
C6_SwapKeyList ==
    (Built /\ lastCall.kind = "Swap") =>
        LET c == lastCall.params
            keys == LastInstruction.keys
        IN  /\ Len(keys) = 5 + VenueKeyCount
            /\ SubSeq(keys, 1, 5) =
                   <<[pubkey |-> c.fromTokenAccountKey,
                      isSigner |-> FALSE, isWritable |-> TRUE],
                     [pubkey |-> c.toTokenAccountKey,
                      isSigner |-> FALSE, isWritable |-> TRUE],
                     [pubkey |-> c.userTransferAuthority,
                      isSigner |-> TRUE, isWritable |-> FALSE],
                     [pubkey |-> protocol.tokenProgramId,
                      isSigner |-> FALSE, isWritable |-> FALSE],
                     [pubkey |-> c.feeTokenAccount,
                      isSigner |-> FALSE, isWritable |-> TRUE]>>
            /\ SubSeq(keys, 6, Len(keys)) = VenueKeys

\* a Serum Swap instruction with its 5 + 11 keys was appended after an
\* instruction the caller already had
C6_Witness ==
    /\ Built
    /\ lastCall.method = "createSwapBySerumDexInstruction"
    /\ Len(instructions) = 2
    /\ Len(LastInstruction.keys) = 16
    /\ LastInstruction.keys[16].pubkey = "serumDexProgram"

\* the header the token-swap builder of the same kind makes for the same
\* parameters
TokenSwapHeader ==
    LET a == MakeArgs(lastCall.params)
        n == Len(LastInstruction.keys) - VenueKeyCount
        made == CASE lastCall.kind = "Swap" ->
                         makeSwapByTokenSwapInstruction(a)
                  [] lastCall.kind = "SwapIn" ->
                         makeSwapInByTokenSwapInstruction(a)
                  [] lastCall.kind = "SwapOut" ->
                         makeSwapOutByTokenSwapInstruction(a)
    IN  SubSeq(made.keys, 1, n)

\* C7: for each of Swap, SwapIn and SwapOut the header accounts ahead of
\* the venue keys have the same order and the same signer/writable flags
\* in all four venues, and the transfer authority is the only signer.
C7_UniformHeaders ==
    (Built /\ lastCall.kind \in {"Swap", "SwapIn", "SwapOut"}) =>
        LET keys == LastInstruction.keys
            n == Len(keys) - VenueKeyCount
        IN  /\ SubSeq(keys, 1, n) = TokenSwapHeader
            /\ \A i \in 1..Len(keys) :
                  keys[i].isSigner =>
                      keys[i].pubkey = lastCall.params.userTransferAuthority

\* the discriminant the claim gives for each method
ClaimedDiscriminant ==
    [createSwapByTokenSwapInstruction |-> 3,
     createSwapInByTokenSwapInstruction |-> 12,
     createSwapOutByTokenSwapInstruction |-> 13,
     createSwapBySerumDexInstruction |-> 4,
     createSwapInBySerumDexInstruction |-> 14,
     createSwapOutBySerumDexInstruction |-> 15,
     createSwapBySaberStableSwapInstruction |-> 6,
     createSwapInBySaberStableSwapInstruction |-> 16,
     createSwapOutBySaberStableSwapInstruction |-> 17,
     createSwapByRaydiumSwapInstruction |-> 9,
     createSwapInByRaydiumSwapInstruction |-> 18,
     createSwapOutByRaydiumSwapInstruction |-> 19,
     createSwapInfo |-> 10,
     setupSwapInfo |-> 11]

\* C8: the first data byte of every built instruction is a discriminant in
\* 0..19 fixed by the operation kind alone (3/12/13 token swap, 4/14/15
\* Serum, 6/16/17 stable swap, 9/18/19 Raydium, 10 createSwapInfo, 11
\* setupSwapInfo), and no two operation kinds share one.
C8_Discriminants ==
    /\ Built =>
          /\ LastInstruction.data[1] = ClaimedDiscriminant[lastCall.method]
          /\ LastInstruction.data[1] \in 0..19
    /\ \A m1, m2 \in DOMAIN ClaimedDiscriminant :
          m1 # m2 => ClaimedDiscriminant[m1] # ClaimedDiscriminant[m2]

\* a stable-swap SwapOut instruction was built
C8_Witness ==
    /\ Built
    /\ lastCall.method = "createSwapOutBySaberStableSwapInstruction"
    /\ LastInstruction.data[1] = 17

\* the amount stored in the 8 bytes that start at offset o of the data
AmountAt(data, o) == fromBuffer(SubSeq(data, o + 1, o + 8))

\* C9: the data buffer has the size of its layout and holds the amounts at
\* fixed offsets: Swap is 25 bytes (amountIn at 1, expectAmountOut at 9,
\* minimumAmountOut at 17), SwapIn 9 bytes (amountIn at 1), SwapOut 17
\* bytes (expectAmountOut at 1, minimumAmountOut at 9), createSwapInfo and
\* setupSwapInfo 1 byte; Numberu64.fromBuffer gives back the amounts.
C9_DataLayout ==
    Built =>
        LET c == lastCall.params
            data == LastInstruction.data
        IN  CASE lastCall.kind = "Swap" ->
                     /\ Len(data) = 25
                     /\ AmountAt(data, 1) = Number(c.amountIn)
                     /\ AmountAt(data, 9) = Number(c.expectAmountOut)
                     /\ AmountAt(data, 17) = Number(c.minimumAmountOut)
              [] lastCall.kind = "SwapIn" ->
                     /\ Len(data) = 9
                     /\ AmountAt(data, 1) = Number(c.amountIn)
              [] lastCall.kind = "SwapOut" ->
                     /\ Len(data) = 17
                     /\ AmountAt(data, 1) = Number(c.expectAmountOut)
                     /\ AmountAt(data, 9) = Number(c.minimumAmountOut)
              [] lastCall.kind = "Setup" ->
                     Len(data) = 1

\* a token-swap Swap instruction carries three amounts, two of them
\* different, in its 25 bytes
C9_Witness ==
    /\ Built
    /\ lastCall.method = "createSwapByTokenSwapInstruction"
    /\ lastCall.params.amountIn = <<2, 1>>
    /\ lastCall.params.expectAmountOut # <<2, 1>>
    /\ Len(LastInstruction.data) = 25
    /\ SubSeq(LastInstruction.data, 2, 9) = <<2, 1, 0, 0, 0, 0, 0, 0>>


\* C12: a create*Instruction or setupSwapInfo call that returned has put
\* exactly one instruction at the end of the caller's list, the earlier
\* elements unchanged and in order, and has left signers as they were;
\* createSwapInfo has in addition appended exactly one signer, the generated
\* keypair, whose public key it returned and which is the first key of the
\* appended instruction.
C12_AppendsOne ==
    Built =>
        /\ instructions =
               Append(lastCall.instructionsBefore, LastInstruction)
        /\ IF lastCall.method = "createSwapInfo"
           THEN /\ Len(signers) = Len(lastCall.signersBefore) + 1
                /\ SubSeq(signers, 1, Len(lastCall.signersBefore)) =
                       lastCall.signersBefore
                /\ signers[Len(signers)] \in GeneratedKeys
                /\ lastRet.value = signers[Len(signers)]
                /\ LastInstruction.keys[1].pubkey = lastRet.value
           ELSE signers = lastCall.signersBefore

\* createSwapInfo returned on lists that already held an element each
C12_Witness ==
    /\ Built
    /\ lastCall.method = "createSwapInfo"
    /\ lastCall.instructionsBefore = <<PriorInstruction>>
    /\ Len(instructions) = 2
    /\ Len(signers) = 2


\* the admin fee accounts among the keys of the last instruction
AdminFeeKeys(info) ==
    SelectSeq(LastInstruction.keys,
              LAMBDA k : k.pubkey \in {info.adminFeeAccountA,
                                       info.adminFeeAccountB})

\* C17: a stable-swap builder called with a source mint that is neither
\* mintA nor mintB of the SaberStableSwapInfo throws; a built stable-swap
\* instruction holds exactly one admin fee account, that of the destination
\* side (adminFeeAccountB for source mintA, adminFeeAccountA for mintB).
C17_StableSwapSourceMint ==
    (lastCall # NULL /\ lastCall.venue = "SaberStableSwap") =>
        LET info == lastCall.params.stableSwapInfo
            sourceMint == lastCall.params.fromMintKey
        IN  IF sourceMint \notin {info.mintA, info.mintB}
            THEN lastRet.kind = "throw"
            ELSE Built =>
                   AdminFeeKeys(info) =
                     <<Key(IF sourceMint = info.mintA
                           THEN info.adminFeeAccountB
                           ELSE info.adminFeeAccountA, FALSE, TRUE)>>

(***************************************************************************)
(* The AmmInfo-based client (index.ts)                                     *)
(***************************************************************************)
\* PublicKey | null fields hold this when they are null
NULL_KEY == "null"

\* TokenSwapInfo.toKeys of index.ts: the host fee account, when there is
\* one, goes after the program id
HostFeeTokenSwapInfo_toKeys(this) ==
    <<Key(this.swapInfo, FALSE, FALSE),
      Key(this.authority, FALSE, FALSE),
      Key(this.tokenAccountA, FALSE, TRUE),
      Key(this.tokenAccountB, FALSE, TRUE),
      Key(this.poolMint, FALSE, TRUE),
      Key(this.feeAccount, FALSE, TRUE),
      Key(this.programId, FALSE, FALSE)>>
    \o (IF this.hostFeeAccount # NULL_KEY
        THEN <<Key(this.hostFeeAccount, FALSE, TRUE)>>
        ELSE <<>>)

HostFeeTokenSwapInfos ==
    {[programId |-> "tokenSwapProgram", swapInfo |-> "ts.swapInfo",
      authority |-> "ts.authority", tokenAccountA |-> "ts.tokenAccountA",
      tokenAccountB |-> "ts.tokenAccountB", mintA |-> "mintA",
      mintB |-> "mintB", poolMint |-> "ts.poolMint",
      feeAccount |-> "ts.feeAccount", hostFeeAccount |-> h] :
        h \in {NULL_KEY, "ts.hostFeeAccount"}}

AmmInfo_tokenAccountA(this) == this.decoded.tokenAccountA

AmmInfo_tokenAccountB(this) == this.decoded.tokenAccountB

AmmInfo_tokenMintA(this) == this.decoded.tokenMintA

AmmInfo_tokenMintB(this) == this.decoded.tokenMintB

AmmInfo_toKeys(this) ==
    <<Key(this.pubkey, FALSE, TRUE),
      Key(this.authority, FALSE, FALSE),
      Key(AmmInfo_tokenAccountA(this), FALSE, TRUE),
      Key(AmmInfo_tokenAccountB(this), FALSE, TRUE)>>

\* the AmmInfo accounts a caller has loaded: an A/B pool and a B/C pool
AmmInfos ==
    {[pubkey |-> "ammInfoAB", programId |-> "ammProgramAB",
      authority |-> "ammAB.authority",
      decoded |-> [tokenAccountA |-> "ammAB.tokenAccountA",
                   tokenAccountB |-> "ammAB.tokenAccountB",
                   tokenMintA |-> "mintA", tokenMintB |-> "mintB"]],
     [pubkey |-> "ammInfoBC", programId |-> "ammProgramBC",
      authority |-> "ammBC.authority",
      decoded |-> [tokenAccountA |-> "ammBC.tokenAccountA",
                   tokenAccountB |-> "ammBC.tokenAccountB",
                   tokenMintA |-> "mintB", tokenMintB |-> "mintC"]]}

\* the mint test with its second direction left out
pairMatchesOneDirection(ammInfo, sourceMint, destinationMint) ==
    /\ sourceMint = AmmInfo_tokenMintA(ammInfo)
    /\ destinationMint = AmmInfo_tokenMintB(ammInfo)

\* the mint test at the head of every single-step builder
pairMatches(ammInfo, sourceMint, destinationMint) ==
    \/ /\ sourceMint = AmmInfo_tokenMintA(ammInfo)
       /\ destinationMint = AmmInfo_tokenMintB(ammInfo)
    \/ /\ sourceMint = AmmInfo_tokenMintB(ammInfo)
       /\ destinationMint = AmmInfo_tokenMintA(ammInfo)

\* (amountIn, expectAmountOut, minimumAmountOut) triples a caller passes:
\* all below 2^64, or the last of them 2^64
AmountTriples ==
    {<<<<2, 1>>, <<255, 255, 255, 255, 255, 255, 255, 255>>, <<1>>>>,
     <<<<2, 1>>, <<1>>, <<0, 0, 0, 0, 0, 0, 0, 0, 1>>>>}

AmmCallerParams ==
    {c \in [fromTokenAccountKey : {"userSourceToken"},
            toTokenAccountKey : {"userDestinationToken"},
            fromMintKey : Mints,
            toMintKey : Mints,
            userTransferAuthority : {"userTransferAuthority"},
            ammInfo : AmmInfos,
            amountIn : AmountSamples \cup {<<1>>},
            expectAmountOut : AmountSamples \cup {<<1>>},
            minimumAmountOut : AmountSamples \cup {<<1>>},
            splTokenSwapInfo : HostFeeTokenSwapInfos,
            stableSwapInfo : SaberStableSwapInfos,
            raydiumInfo : RaydiumAmmInfos,
            dexMarketInfo : SerumDexMarketInfos,
            useFull : BOOLEAN] :
        <<c.amountIn, c.expectAmountOut, c.minimumAmountOut>>
            \in AmountTriples}

AmmMakeArgs(c) ==
    [ammInfo |-> c.ammInfo,
     sourceTokenKey |-> c.fromTokenAccountKey,
     sourceMint |-> c.fromMintKey,
     destinationTokenKey |-> c.toTokenAccountKey,
     destinationMint |-> c.toMintKey,
     transferAuthority |-> c.userTransferAuthority,
     tokenProgramId |-> protocol.tokenProgramId,
     splTokenSwapInfo |-> c.splTokenSwapInfo,
     stableSwapInfo |-> c.stableSwapInfo,
     raydiumInfo |-> c.raydiumInfo,
     dexMarketInfo |-> c.dexMarketInfo,
     amountIn |-> c.amountIn,
     expectAmountOut |-> c.expectAmountOut,
     minimumAmountOut |-> c.minimumAmountOut,
     useFull |-> c.useFull]

index_makeSwapByTokenSwapInstruction(a) ==
    LET dataLayout ==
            <<u8("instruction"),
              uint64("amountIn"),
              uint64("expectAmountOut"),
              uint64("minimumAmountOut"),
              u8("useFull")>>
        dataMap ==
            [instruction |-> 3,
             amountIn |-> toBuffer(a.amountIn),
             expectAmountOut |-> toBuffer(a.expectAmountOut),
             minimumAmountOut |-> toBuffer(a.minimumAmountOut),
             useFull |-> IF a.useFull THEN 1 ELSE 0]
        keys ==
            <<Key(a.sourceTokenKey, FALSE, TRUE),
              Key(a.destinationTokenKey, FALSE, TRUE),
              Key(a.transferAuthority, TRUE, FALSE),
              Key(a.tokenProgramId, FALSE, FALSE)>>
            \o AmmInfo_toKeys(a.ammInfo)
            \o HostFeeTokenSwapInfo_toKeys(a.splTokenSwapInfo)
    IN  IF ~pairMatches(a.ammInfo, a.sourceMint, a.destinationMint)
        THEN Throw("ammInfo error")
        ELSE Assemble(dataLayout, dataMap, keys, a.ammInfo.programId)

index_createSwapByTokenSwapInstruction ==
    \E c \in AmmCallerParams :
        Push("createSwapByTokenSwapInstruction",
             "Swap", "TokenSwap", c,
             index_makeSwapByTokenSwapInstruction(AmmMakeArgs(c)))

index_makeSwapBySaberStableSwapInstruction(a) ==
    LET dataLayout ==
            <<u8("instruction"),
              uint64("amountIn"),
              uint64("expectAmountOut"),
              uint64("minimumAmountOut"),
              u8("useFull")>>
        dataMap ==
            [instruction |-> 6,
             amountIn |-> toBuffer(a.amountIn),
             expectAmountOut |-> toBuffer(a.expectAmountOut),
             minimumAmountOut |-> toBuffer(a.minimumAmountOut),
             useFull |-> IF a.useFull THEN 1 ELSE 0]
        keys ==
            <<Key(a.sourceTokenKey, FALSE, TRUE),
              Key(a.destinationTokenKey, FALSE, TRUE),
              Key(a.transferAuthority, TRUE, FALSE),
              Key(a.tokenProgramId, FALSE, FALSE)>>
            \o AmmInfo_toKeys(a.ammInfo)
            \o SaberStableSwapInfo_toKeys(a.stableSwapInfo, a.sourceMint)
    IN  IF ~pairMatches(a.ammInfo, a.sourceMint, a.destinationMint)
        THEN Throw("ammInfo error")
        ELSE Assemble(dataLayout, dataMap, keys, a.ammInfo.programId)

index_createSwapBySaberStableSwapInstruction ==
    \E c \in AmmCallerParams :
        Push("createSwapBySaberStableSwapInstruction",
             "Swap", "SaberStableSwap", c,
             index_makeSwapBySaberStableSwapInstruction(AmmMakeArgs(c)))

index_makeSwapByRaydiumSwapInstruction(a) ==
    LET dataLayout ==
            <<u8("instruction"),
              uint64("amountIn"),
              uint64("expectAmountOut"),
              uint64("minimumAmountOut"),
              u8("useFull")>>
        dataMap ==
            [instruction |-> 9,
             amountIn |-> toBuffer(a.amountIn),
             expectAmountOut |-> toBuffer(a.expectAmountOut),
             minimumAmountOut |-> toBuffer(a.minimumAmountOut),
             useFull |-> IF a.useFull THEN 1 ELSE 0]
        keys ==
            <<Key(a.sourceTokenKey, FALSE, TRUE),
              Key(a.destinationTokenKey, FALSE, TRUE),
              Key(a.transferAuthority, TRUE, FALSE),
              Key(a.tokenProgramId, FALSE, FALSE)>>
            \o AmmInfo_toKeys(a.ammInfo)
            \o RaydiumAmmInfo_toKeys(a.raydiumInfo)
    IN  IF ~pairMatches(a.ammInfo, a.sourceMint, a.destinationMint)
        THEN Throw("ammInfo error")
        ELSE Assemble(dataLayout, dataMap, keys, a.ammInfo.programId)

index_createSwapByRaydiumSwapInstruction ==
    \E c \in AmmCallerParams :
        Push("createSwapByRaydiumSwapInstruction",
             "Swap", "RaydiumSwap", c,
             index_makeSwapByRaydiumSwapInstruction(AmmMakeArgs(c)))

index_makeSwapBySerumDexInstruction(a) ==
    LET dataLayout ==
            <<u8("instruction"),
              uint64("amountIn"),
              uint64("expectAmountOut"),
              uint64("minimumAmountOut"),
              u8("useFull")>>
        dataMap ==
            [instruction |-> 4,
             amountIn |-> toBuffer(a.amountIn),
             expectAmountOut |-> toBuffer(a.expectAmountOut),
             minimumAmountOut |-> toBuffer(a.minimumAmountOut),
             useFull |-> IF a.useFull THEN 1 ELSE 0]
        keys ==
            <<Key(a.sourceTokenKey, FALSE, TRUE),
              Key(a.destinationTokenKey, FALSE, TRUE),
              Key(a.transferAuthority, TRUE, FALSE),
              Key(a.tokenProgramId, FALSE, FALSE)>>
            \o AmmInfo_toKeys(a.ammInfo)
            \o SerumDexMarketInfo_toKeys(a.dexMarketInfo)
    IN  IF ~pairMatches(a.ammInfo, a.sourceMint, a.destinationMint)
        THEN Throw("ammInfo error")
        ELSE Assemble(dataLayout, dataMap, keys, a.ammInfo.programId)

index_createSwapBySerumDexInstruction ==
    \E c \in AmmCallerParams :
        Push("createSwapBySerumDexInstruction",
             "Swap", "SerumDex", c,
             index_makeSwapBySerumDexInstruction(AmmMakeArgs(c)))

\* index.ts createOneSolProtocol: programId ? programId : the default
index_createOneSolProtocol(wallet, pid) ==
    [programId |-> IF pid # NULL_KEY THEN pid ELSE ONESOL_PROTOCOL_PROGRAM_ID,
     tokenProgramId |-> TOKEN_PROGRAM_ID,
     wallet |-> wallet]

InitAmm ==
    /\ NumberIdle
    /\ HelpersIdle
    /\ RestIdle
    /\ protocol \in {index_createOneSolProtocol("wallet", pid) :
                        pid \in {NULL_KEY, "customProgram"}}
    /\ instructions = <<>>
    /\ signers = <<>>
    /\ lastCall = NULL
    /\ lastRet = Pending
    /\ nCalls = 0

NextAmm ==
    \/ index_createSwapByTokenSwapInstruction
    \/ index_createSwapBySaberStableSwapInstruction
    \/ index_createSwapByRaydiumSwapInstruction
    \/ index_createSwapBySerumDexInstruction

SpecAmm == InitAmm /\ [][NextAmm]_vars

(***************************************************************************)
(* Claims about the AmmInfo-based client                                   *)
(***************************************************************************)
\* the mint pair of the last call is the pool's pair, in either direction
PairOfPool ==
    LET c == lastCall.params
        A == c.ammInfo.decoded.tokenMintA
        B == c.ammInfo.decoded.tokenMintB
    IN  <<c.fromMintKey, c.toMintKey>> \in {<<A, B>>, <<B, A>>}

\* every amount of the last call fits in 64 bits
AmountsFit ==
    LET c == lastCall.params
    IN  \A n \in {c.amountIn, c.expectAmountOut, c.minimumAmountOut} :
            Len(n) <= 8

\* C5 as stated: a single-step builder of index.ts returns an instruction
\* if and only if (sourceMint, destinationMint) is the pool's mint pair in
\* one of the two directions, and throws for every other pair.
C5_InstructionIffPair ==
    lastCall # NULL =>
        /\ Built <=> PairOfPool
        /\ ~Built => /\ lastRet.kind = "throw"
                      /\ instructions = lastCall.instructionsBefore

\* C5 amended: a single-step builder of index.ts returns an instruction if
\* and only if the mint pair is the pool's pair in one of the two
\* directions and each of the three amounts is below 2^64; for every other
\* pair it throws the ammInfo error, for an amount of 2^64 or more
\* 'Numberu64 too large', and no instruction is appended.
C5_InstructionIffPairAndAmounts ==
    lastCall # NULL =>
        /\ Built <=> (PairOfPool /\ AmountsFit)
        /\ Built =>
              /\ Len(instructions) = Len(lastCall.instructionsBefore) + 1
              /\ LastInstruction.kind = "instruction"
        /\ ~PairOfPool =>
              /\ lastRet = Throw("ammInfo error")
              /\ instructions = lastCall.instructionsBefore
        /\ (PairOfPool /\ ~AmountsFit) =>
              /\ lastRet = Throw("Numberu64 too large")
              /\ instructions = lastCall.instructionsBefore

\* the reverse direction of the pool's pair was accepted by the Serum
\* builder
C5_Witness ==
    /\ Built
    /\ lastCall.method = "createSwapBySerumDexInstruction"
    /\ lastCall.params.ammInfo.pubkey = "ammInfoBC"
    /\ lastCall.params.fromMintKey = "mintC"
    /\ lastCall.params.toMintKey = "mintB"
    /\ LastInstruction.programId = "ammProgramBC"

(***************************************************************************)
(* The two-step swap of the AmmInfo-based client (index.ts)                *)
(***************************************************************************)
\* the stepInfo objects a step can hold, tagged with the class instanceof
\* tests: TokenSwapInfo (with or without a host fee account),
\* SerumDexMarketInfo or SaberStableSwapInfo
StepInfos ==
    {[class |-> "TokenSwapInfo", info |-> t] : t \in HostFeeTokenSwapInfos}
    \cup {[class |-> "SerumDexMarketInfo", info |-> d] :
              d \in SerumDexMarketInfos}
    \cup {[class |-> "SaberStableSwapInfo", info |-> b] :
              b \in SaberStableSwapInfos}

Steps == [ammInfo : AmmInfos, stepInfo : StepInfos]

Routes == [step1 : Steps, step2 : Steps]

\* the mint test with "or" in the place of "and"
twoStepsMintsMatchEither(step1, step2, sourceMint, destinationMint) ==
    \/ sourceMint \in {AmmInfo_tokenMintA(step1.ammInfo),
                       AmmInfo_tokenMintB(step1.ammInfo)}
    \/ destinationMint \in {AmmInfo_tokenMintA(step2.ammInfo),
                            AmmInfo_tokenMintB(step2.ammInfo)}

\* the mint test at the head of makeSwapTwoStepsInstruction
twoStepsMintsMatch(step1, step2, sourceMint, destinationMint) ==
    /\ sourceMint \in {AmmInfo_tokenMintA(step1.ammInfo),
                       AmmInfo_tokenMintB(step1.ammInfo)}
    /\ destinationMint \in {AmmInfo_tokenMintA(step2.ammInfo),
                            AmmInfo_tokenMintB(step2.ammInfo)}

\* stepSourceMint of iteration i (from 0) of the forEach over the steps
stepSourceMint(step, i, sourceMint, destinationMint) ==
    IF i = 0
    THEN sourceMint
    ELSE IF AmmInfo_tokenMintA(step.ammInfo) = destinationMint
         THEN AmmInfo_tokenMintB(step.ammInfo)
         ELSE AmmInfo_tokenMintA(step.ammInfo)

\* swapKeys of iteration i: the key list of the step's venue
swapKeys(step, i, sourceMint, destinationMint) ==
    CASE step.stepInfo.class = "TokenSwapInfo" ->
            HostFeeTokenSwapInfo_toKeys(step.stepInfo.info)
      [] step.stepInfo.class = "SerumDexMarketInfo" ->
            SerumDexMarketInfo_toKeys(step.stepInfo.info)
      [] step.stepInfo.class = "SaberStableSwapInfo" ->
            SaberStableSwapInfo_toKeys(
                step.stepInfo.info,
                stepSourceMint(step, i, sourceMint, destinationMint))

\* the value written to step<i+1>ExchangerType
exchangerType(step) ==
    CASE step.stepInfo.class = "TokenSwapInfo" -> 0
      [] step.stepInfo.class = "SerumDexMarketInfo" -> 1
      [] step.stepInfo.class = "SaberStableSwapInfo" -> 2

\* what iteration i of the forEach pushes: the ammInfo keys for every step
\* but the first, then the venue keys
stepKeys(step, i, sourceMint, destinationMint) ==
    (IF i # 0 THEN AmmInfo_toKeys(step.ammInfo) ELSE <<>>)
    \o swapKeys(step, i, sourceMint, destinationMint)

\* the builder writing each step's count into the other step's field
index_makeSwapTwoStepsInstructionCountsCrossed(a) ==
    LET dataLayout ==
            <<u8("instruction"),
              uint64("amountIn"),
              uint64("expectAmountOut"),
              uint64("minimumAmountOut"),
              u8("step1ExchangerType"),
              u8("step1AccountsCount"),
              u8("step2ExchangerType"),
              u8("step2AccountsCount")>>
        dataMap ==
            [instruction |-> 5,
             amountIn |-> toBuffer(a.amountIn),
             expectAmountOut |-> toBuffer(a.expectAmountOut),
             minimumAmountOut |-> toBuffer(a.minimumAmountOut),
             step1ExchangerType |-> exchangerType(a.step1),
             step1AccountsCount |->
                 Len(swapKeys(a.step2, 1, a.sourceMint, a.destinationMint)),
             step2ExchangerType |-> exchangerType(a.step2),
             step2AccountsCount |->
                 Len(swapKeys(a.step1, 0, a.sourceMint, a.destinationMint))]
        keys ==
            <<Key(a.sourceTokenKey, FALSE, TRUE),
              Key(a.destinationTokenKey, FALSE, TRUE),
              Key(a.transferAuthority, TRUE, FALSE),
              Key(a.tokenProgramId, FALSE, FALSE)>>
            \o stepKeys(a.step1, 0, a.sourceMint, a.destinationMint)
            \o stepKeys(a.step2, 1, a.sourceMint, a.destinationMint)
    IN  IF ~twoStepsMintsMatch(a.step1, a.step2,
                               a.sourceMint, a.destinationMint)
        THEN Throw("ammInfo error")
        ELSE Assemble(dataLayout, dataMap, keys, a.programId)

index_makeSwapTwoStepsInstruction(a) ==
    LET dataLayout ==
            <<u8("instruction"),
              uint64("amountIn"),
              uint64("expectAmountOut"),
              uint64("minimumAmountOut"),
              u8("step1ExchangerType"),
              u8("step1AccountsCount"),
              u8("step2ExchangerType"),
              u8("step2AccountsCount")>>
        dataMap ==
            [instruction |-> 5,
             amountIn |-> toBuffer(a.amountIn),
             expectAmountOut |-> toBuffer(a.expectAmountOut),
             minimumAmountOut |-> toBuffer(a.minimumAmountOut),
             step1ExchangerType |-> exchangerType(a.step1),
             step1AccountsCount |->
                 Len(swapKeys(a.step1, 0, a.sourceMint, a.destinationMint)),
             step2ExchangerType |-> exchangerType(a.step2),
             step2AccountsCount |->
                 Len(swapKeys(a.step2, 1, a.sourceMint, a.destinationMint))]
        keys ==
            <<Key(a.sourceTokenKey, FALSE, TRUE),
              Key(a.destinationTokenKey, FALSE, TRUE),
              Key(a.transferAuthority, TRUE, FALSE),
              Key(a.tokenProgramId, FALSE, FALSE)>>
            \o stepKeys(a.step1, 0, a.sourceMint, a.destinationMint)
            \o stepKeys(a.step2, 1, a.sourceMint, a.destinationMint)
    IN  IF ~twoStepsMintsMatch(a.step1, a.step2,
                               a.sourceMint, a.destinationMint)
        THEN Throw("ammInfo error")
        ELSE Assemble(dataLayout, dataMap, keys, a.programId)

\* the parameter objects of createSwapTwoStepsInstruction: the steps are
\* the ones of the route the caller has loaded
TwoStepsCallerParams ==
    {c \in [fromTokenAccountKey : {"userSourceToken"},
            toTokenAccountKey : {"userDestinationToken"},
            fromMintKey : Mints,
            toMintKey : Mints,
            userTransferAuthority : {"userTransferAuthority"},
            amountIn : AmountSamples \cup {<<1>>},
            expectAmountOut : AmountSamples \cup {<<1>>},
            minimumAmountOut : AmountSamples \cup {<<1>>},
            step1 : {route.step1},
            step2 : {route.step2}] :
        <<c.amountIn, c.expectAmountOut, c.minimumAmountOut>>
            \in AmountTriples}

TwoStepsMakeArgs(c) ==
    [sourceTokenKey |-> c.fromTokenAccountKey,
     sourceMint |-> c.fromMintKey,
     destinationTokenKey |-> c.toTokenAccountKey,
     destinationMint |-> c.toMintKey,
     transferAuthority |-> c.userTransferAuthority,
     tokenProgramId |-> protocol.tokenProgramId,
     step1 |-> c.step1,
     step2 |-> c.step2,
     amountIn |-> c.amountIn,
     expectAmountOut |-> c.expectAmountOut,
     minimumAmountOut |-> c.minimumAmountOut,
     programId |-> protocol.programId]

index_createSwapTwoStepsInstruction ==
    \E c \in TwoStepsCallerParams :
        Push("createSwapTwoStepsInstruction",
             "Swap", "TwoSteps", c,
             index_makeSwapTwoStepsInstruction(TwoStepsMakeArgs(c)))

InitTwoSteps ==
    /\ NumberIdle
    /\ HelpersIdle
    /\ MarketIdle
    /\ CreateIdle
    /\ SwapIdle
    /\ CliIdle
    /\ VenueIdle
    /\ FindIdle
    /\ route \in Routes
    /\ protocol \in {index_createOneSolProtocol("wallet", pid) :
                        pid \in {NULL_KEY, "customProgram"}}
    /\ instructions = <<>>
    /\ signers = <<>>
    /\ lastCall = NULL
    /\ lastRet = Pending
    /\ nCalls = 0

NextTwoSteps == index_createSwapTwoStepsInstruction

SpecTwoSteps == InitTwoSteps /\ [][NextTwoSteps]_vars

(***************************************************************************)
(* Claims about the two-step swap                                          *)
(***************************************************************************)
\* the source mint of the last call is one of step1.ammInfo's two mints and
\* the destination mint one of step2.ammInfo's
MintsOfSteps ==
    LET c == lastCall.params
    IN  /\ c.fromMintKey \in {c.step1.ammInfo.decoded.tokenMintA,
                              c.step1.ammInfo.decoded.tokenMintB}
        /\ c.toMintKey \in {c.step2.ammInfo.decoded.tokenMintA,
                            c.step2.ammInfo.decoded.tokenMintB}

\* C18 as stated: makeSwapTwoStepsInstruction returns an instruction if and
\* only if sourceMint is one of step1.ammInfo's two mints and
\* destinationMint is one of step2.ammInfo's two mints; otherwise it throws
\* 'ammInfo error' before any key or data is assembled.
C18_TwoStepsIffMints ==
    lastCall # NULL =>
        /\ Built <=> MintsOfSteps
        /\ ~Built => /\ lastRet = Throw("ammInfo error")
                      /\ instructions = lastCall.instructionsBefore

\* C18 amended: makeSwapTwoStepsInstruction returns an instruction if and
\* only if sourceMint is one of step1.ammInfo's two mints, destinationMint
\* is one of step2.ammInfo's two mints and each of the three amounts is
\* below 2^64; when the mint condition fails it throws 'ammInfo error',
\* whatever the amounts are, and when only an amount is 2^64 or more it
\* throws 'Numberu64 too large'; a call that throws appends nothing.
C18_TwoStepsIffMintsAndAmounts ==
    lastCall # NULL =>
        /\ Built <=> (MintsOfSteps /\ AmountsFit)
        /\ Built =>
              /\ Len(instructions) = Len(lastCall.instructionsBefore) + 1
              /\ LastInstruction.kind = "instruction"
        /\ ~MintsOfSteps =>
              /\ lastRet = Throw("ammInfo error")
              /\ instructions = lastCall.instructionsBefore
        /\ (MintsOfSteps /\ ~AmountsFit) =>
              /\ lastRet = Throw("Numberu64 too large")
              /\ instructions = lastCall.instructionsBefore

\* a source mint of step 1's pool with a destination mint foreign to step
\* 2's pool was refused although the amounts fit
C18_Witness ==
    /\ lastCall # NULL
    /\ lastCall.params.step1.ammInfo.pubkey = "ammInfoAB"
    /\ lastCall.params.step2.ammInfo.pubkey = "ammInfoBC"
    /\ lastCall.params.fromMintKey = "mintA"
    /\ lastCall.params.toMintKey = "mintA"
    /\ AmountsFit
    /\ lastRet = Throw("ammInfo error")
    /\ instructions = <<>>

\* the number of keys the venue of a step contributes
StepKeyCount(step) ==
    CASE step.stepInfo.class = "TokenSwapInfo" ->
            IF step.stepInfo.info.hostFeeAccount # NULL_KEY THEN 8 ELSE 7
      [] step.stepInfo.class = "SerumDexMarketInfo" -> 11
      [] step.stepInfo.class = "SaberStableSwapInfo" -> 7

\* the exchanger type the program expects for the class of a step
TypeOfClass(step) ==
    CASE step.stepInfo.class = "TokenSwapInfo" -> 0
      [] step.stepInfo.class = "SerumDexMarketInfo" -> 1
      [] step.stepInfo.class = "SaberStableSwapInfo" -> 2

\* the program id every key list of a venue ends its fixed part with
VenueProgramKey(step) == Key(step.stepInfo.info.programId, FALSE, FALSE)

\* C20: in the instruction built by makeSwapTwoStepsInstruction the encoded
\* step1AccountsCount and step2AccountsCount are the numbers of venue keys
\* the steps contributed to the key list (step 1's right after the 4 header
\* keys, step 2's after the ammInfo keys of step 2), the exchanger types
\* are 0 for TokenSwapInfo, 1 for SerumDexMarketInfo and 2 for
\* SaberStableSwapInfo, and the key list has 4 header keys plus the ammInfo
\* keys plus step1AccountsCount plus step2AccountsCount entries.
C20_TwoStepsCounts ==
    (Built /\ lastCall.method = "createSwapTwoStepsInstruction") =>
        LET ix == LastInstruction
            c == lastCall.params
            type1 == ix.data[26]
            count1 == ix.data[27]
            type2 == ix.data[28]
            count2 == ix.data[29]
            ammKeys == AmmInfo_toKeys(c.step2.ammInfo)
        IN  /\ Len(ix.data) = 29
            /\ type1 = TypeOfClass(c.step1)
            /\ type2 = TypeOfClass(c.step2)
            /\ count1 = StepKeyCount(c.step1)
            /\ count2 = StepKeyCount(c.step2)
            /\ Len(ix.keys) = 4 + Len(ammKeys) + count1 + count2
            /\ SubSeq(ix.keys, 4 + count1 + 1, 4 + count1 + Len(ammKeys))
                   = ammKeys
            /\ VenueProgramKey(c.step1) \in
                   {ix.keys[k] : k \in 5..(4 + count1)}
            /\ VenueProgramKey(c.step2) \in
                   {ix.keys[k] :
                       k \in (4 + count1 + Len(ammKeys) + 1)..Len(ix.keys)}
            /\ \A k \in 5..(4 + count1) :
                   ix.keys[k].pubkey \notin
                       {m.pubkey : m \in {ammKeys[j] : j \in 1..Len(ammKeys)}}

\* a route through a TokenSwapInfo with a host fee account (8 keys, type 0)
\* and then a SerumDexMarketInfo (11 keys, type 1) was built
C20_Witness ==
    /\ Built
    /\ lastCall.method = "createSwapTwoStepsInstruction"
    /\ lastCall.params.step1.stepInfo.class = "TokenSwapInfo"
    /\ lastCall.params.step1.stepInfo.info.hostFeeAccount # NULL_KEY
    /\ lastCall.params.step2.stepInfo.class = "SerumDexMarketInfo"
    /\ LastInstruction.data[27] = 8
    /\ LastInstruction.data[29] = 11
    /\ Len(LastInstruction.keys) = 27

\* C21: the key list of a two-step swap instruction holds, after the 4
\* header keys and for each of step 1 and step 2 in order, that step's
\* ammInfo keys (ammInfo account, authority, tokenAccountA, tokenAccountB)
\* immediately followed by that step's venue keys, as the single-step
\* builders arrange them.
C21_TwoStepsAmmInfoKeysPerStep ==
    (Built /\ lastCall.method = "createSwapTwoStepsInstruction") =>
        LET ix == LastInstruction
            c == lastCall.params
            count1 == ix.data[27]
            count2 == ix.data[29]
            ammKeys1 == AmmInfo_toKeys(c.step1.ammInfo)
            ammKeys2 == AmmInfo_toKeys(c.step2.ammInfo)
        IN  /\ Len(ix.keys) = 4 + 4 + count1 + 4 + count2
            /\ SubSeq(ix.keys, 5, 8) = ammKeys1
            /\ SubSeq(ix.keys, 8 + count1 + 1, 8 + count1 + 4) = ammKeys2

\* the mint of an ammInfo that is not the given one
OtherMint(ammInfo, mint) ==
    IF ammInfo.decoded.tokenMintA = mint
    THEN ammInfo.decoded.tokenMintB
    ELSE ammInfo.decoded.tokenMintA

\* C22: whenever makeSwapTwoStepsInstruction returns an instruction the two
\* steps chain through one intermediate mint: the mint of step1.ammInfo
\* other than sourceMint is the source mint of step 2 (the mint of
\* step2.ammInfo other than destinationMint), and it differs from both
\* sourceMint and destinationMint.
C22_TwoStepsChain ==
    (Built /\ lastCall.method = "createSwapTwoStepsInstruction") =>
        LET c == lastCall.params
            intermediate == OtherMint(c.step1.ammInfo, c.fromMintKey)
        IN  /\ intermediate = OtherMint(c.step2.ammInfo, c.toMintKey)
            /\ intermediate \notin {c.fromMintKey, c.toMintKey}

(***************************************************************************)
(* A caller's transaction under construction: single-step and two-step     *)
(* builders of index.ts called on lists that may already hold entries      *)
(***************************************************************************)
\* what the caller's lists hold before the first modelled call: nothing,
\* or an instruction and its signer from an earlier step
PriorLists ==
    {[instructions |-> <<>>, signers |-> <<>>],
     [instructions |->
          <<TransactionInstruction(<<Key("wallet", TRUE, TRUE),
                                     Key("newAccount", TRUE, TRUE)>>,
                                   "SystemProgram", <<0, 0, 0, 0>>)>>,
      signers |-> <<"newAccount">>]}

\* the route the caller has loaded: the A/B pool, then the B/C pool, both
\* on Serum markets
BuildRoutes ==
    {r \in Routes :
        /\ r.step1.ammInfo.pubkey = "ammInfoAB"
        /\ r.step2.ammInfo.pubkey = "ammInfoBC"
        /\ r.step1.stepInfo.class = "SerumDexMarketInfo"
        /\ r.step2.stepInfo.class = "SerumDexMarketInfo"}

InitBuilds ==
    /\ NumberIdle
    /\ HelpersIdle
    /\ MarketIdle
    /\ CreateIdle
    /\ SwapIdle
    /\ CliIdle
    /\ VenueIdle
    /\ FindIdle
    /\ route \in BuildRoutes
    /\ protocol \in {index_createOneSolProtocol("wallet", pid) :
                        pid \in {NULL_KEY, "customProgram"}}
    /\ \E prior \in PriorLists :
          /\ instructions = prior.instructions
          /\ signers = prior.signers
    /\ lastCall = NULL
    /\ lastRet = Pending
    /\ nCalls = 0

NextBuilds ==
    \/ index_createSwapByTokenSwapInstruction
    \/ index_createSwapTwoStepsInstruction

SpecBuilds == InitBuilds /\ [][NextBuilds]_vars

\* C25: a failed build leaves the caller's transaction untouched: when a
\* make*Instruction call throws (mint pair mismatch or 'Numberu64 too
\* large') the surrounding create*Instruction rejects with that error and
\* the instructions list and the signers list of the caller are exactly as
\* they were before the call.
C25_FailedBuildLeavesLists ==
    (lastCall # NULL /\ lastRet.kind # "return") =>
        /\ lastRet \in {Throw("ammInfo error"), Throw("Numberu64 too large")}
        /\ instructions = lastCall.instructionsBefore
        /\ signers = lastCall.signersBefore

\* a two-step build on lists that held an instruction and a signer threw
\* 'Numberu64 too large' and both lists are as they were
C25_Witness ==
    /\ lastCall # NULL
    /\ lastCall.method = "createSwapTwoStepsInstruction"
    /\ lastRet = Throw("Numberu64 too large")
    /\ Len(instructions) = 1
    /\ signers = <<"newAccount">>
    /\ instructions = lastCall.instructionsBefore

\* C26: every instruction appended by a create*Instruction method of a
\* OneSolProtocol instance is addressed to that instance's programId (the
\* value given to createOneSolProtocol, or ONESOL_PROTOCOL_PROGRAM_ID when
\* none was given), for single-step and two-step swaps alike.
C26_AddressedToInstanceProgram ==
    Built =>
        /\ protocol.programId \in {ONESOL_PROTOCOL_PROGRAM_ID, "customProgram"}
        /\ LastInstruction.programId = protocol.programId

(***************************************************************************)
(* The venue classes and their key lists                                   *)
(***************************************************************************)
\* the key list with the host fee account marked read-only
PoolTokenSwapInfo_toKeysReadOnlyHost(this) ==
    <<Key(this.swapInfo, FALSE, FALSE),
      Key(this.authority, FALSE, FALSE),
      Key(this.poolSource, FALSE, TRUE),
      Key(this.poolDestination, FALSE, TRUE),
      Key(this.poolMint, FALSE, TRUE),
      Key(this.poolFeeAccount, FALSE, TRUE),
      Key(this.programId, FALSE, FALSE)>>
    \o (IF this.hostFeeAccount # NULL_KEY
        THEN <<Key(this.hostFeeAccount, FALSE, FALSE)>>
        ELSE <<>>)

\* TokenSwapInfo.toKeys of the revision whose pool accounts are named
\* poolSource and poolDestination
PoolTokenSwapInfo_toKeys(this) ==
    <<Key(this.swapInfo, FALSE, FALSE),
      Key(this.authority, FALSE, FALSE),
      Key(this.poolSource, FALSE, TRUE),
      Key(this.poolDestination, FALSE, TRUE),
      Key(this.poolMint, FALSE, TRUE),
      Key(this.poolFeeAccount, FALSE, TRUE),
      Key(this.programId, FALSE, FALSE)>>
    \o (IF this.hostFeeAccount # NULL_KEY
        THEN <<Key(this.hostFeeAccount, FALSE, TRUE)>>
        ELSE <<>>)

\* includeHostFeeAccount() of the host-fee revisions
TokenSwapInfo_includeHostFeeAccount(this) ==
    IF this.hostFeeAccount # NULL_KEY THEN 1 ELSE 0

PoolTokenSwapInfos ==
    {[programId |-> "tokenSwapProgram", swapInfo |-> "ts.swapInfo",
      authority |-> "ts.authority", poolSource |-> "ts.poolSource",
      poolDestination |-> "ts.poolDestination", poolMint |-> "ts.poolMint",
      poolFeeAccount |-> "ts.poolFeeAccount", hostFeeAccount |-> h] :
        h \in {NULL_KEY, "ts.hostFeeAccount"}}

\* the classes that have a hostFeeAccount field and includeHostFeeAccount()
HostFeeClasses == {"HostFeeTokenSwapInfo", "PoolTokenSwapInfo"}

\* program ids a venue object is constructed with
VenuePrograms == {"venueProgram", "venueProgramV2"}

\* new <class>(programId, ...): the object with the fields it was given
VenueObject(class, fields, pid) ==
    [class |-> class, fields |-> [fields EXCEPT !.programId = pid]]

\* the venue objects a caller constructs
VenueObjects ==
    UNION {
        {VenueObject("TokenSwapInfo", f, p) : f \in TokenSwapInfos}
        \cup {VenueObject("HostFeeTokenSwapInfo", f, p) :
                  f \in HostFeeTokenSwapInfos}
        \cup {VenueObject("PoolTokenSwapInfo", f, p) :
                  f \in PoolTokenSwapInfos}
        \cup {VenueObject("SerumDexMarketInfo", f, p) :
                  f \in SerumDexMarketInfos}
        \cup {VenueObject("SaberStableSwapInfo", f, p) :
                  f \in SaberStableSwapInfos}
        \cup {VenueObject("RaydiumAmmInfo", f, p) : f \in RaydiumAmmInfos} :
        p \in VenuePrograms}

\* the toKeys method of the object's class
Venue_toKeys(this, sourceMint) ==
    CASE this.class = "TokenSwapInfo" -> TokenSwapInfo_toKeys(this.fields)
      [] this.class = "HostFeeTokenSwapInfo" ->
            HostFeeTokenSwapInfo_toKeys(this.fields)
      [] this.class = "PoolTokenSwapInfo" ->
            PoolTokenSwapInfo_toKeys(this.fields)
      [] this.class = "SerumDexMarketInfo" ->
            SerumDexMarketInfo_toKeys(this.fields)
      [] this.class = "SaberStableSwapInfo" ->
            SaberStableSwapInfo_toKeys(this.fields, sourceMint)
      [] this.class = "RaydiumAmmInfo" -> RaydiumAmmInfo_toKeys(this.fields)

\* the arguments toKeys takes: a source mint for SaberStableSwapInfo, none
\* for the other classes
ToKeysArgs(this) ==
    IF this.class = "SaberStableSwapInfo" THEN Mints ELSE {NULL_KEY}

exceptVenue ==
    <<numVars, helperVars, clientVars, marketVars, createVars, swapVars,
      cliVars, routeVars,
      findVars>>

\* venueInfo.toKeys(...)
toKeys ==
    \E sourceMint \in ToKeysArgs(venueInfo) :
        /\ Len(toKeysCalls) < MaxToKeys
        /\ toKeysCalls' =
               Append(toKeysCalls,
                      [sourceMint |-> sourceMint,
                       keys |-> Venue_toKeys(venueInfo, sourceMint)])
        /\ UNCHANGED <<venueInfo, hostFeeRet, exceptVenue>>

\* venueInfo.includeHostFeeAccount()
includeHostFeeAccount ==
    /\ venueInfo.class \in HostFeeClasses
    /\ hostFeeRet' =
           Return(TokenSwapInfo_includeHostFeeAccount(venueInfo.fields))
    /\ UNCHANGED <<venueInfo, toKeysCalls, exceptVenue>>

InitVenue ==
    /\ NumberIdle
    /\ HelpersIdle
    /\ ClientIdle
    /\ MarketIdle
    /\ CreateIdle
    /\ SwapIdle
    /\ CliIdle
    /\ RouteIdle
    /\ FindIdle
    /\ venueInfo \in VenueObjects
    /\ toKeysCalls = <<>>
    /\ hostFeeRet = Pending

NextVenue ==
    \/ toKeys
    \/ includeHostFeeAccount

SpecVenue == InitVenue /\ [][NextVenue]_vars

(***************************************************************************)
(* Claims about the venue key lists                                        *)
(***************************************************************************)
\* the length of the key list of a class without its host fee account
BaseKeyCount(this) ==
    CASE this.class \in {"TokenSwapInfo", "HostFeeTokenSwapInfo",
                         "PoolTokenSwapInfo", "SaberStableSwapInfo"} -> 7
      [] this.class = "SerumDexMarketInfo" -> 11
      [] this.class = "RaydiumAmmInfo" -> 15

\* the object has a host fee account
HasHostFee(this) ==
    /\ this.class \in HostFeeClasses
    /\ this.fields.hostFeeAccount # NULL_KEY

\* C19: every venue key list has a fixed length and order and contains no
\* signer: TokenSwapInfo.toKeys returns 7 keys, SaberStableSwapInfo.toKeys
\* 7, SerumDexMarketInfo.toKeys 11 and RaydiumAmmInfo.toKeys 15, the last
\* of them the read-only venue program id; in the host-fee revisions
\* TokenSwapInfo.toKeys returns an 8th key exactly when hostFeeAccount is
\* non-null, the writable host fee account appended after the program id,
\* and includeHostFeeAccount() then returns 1, otherwise 0; two toKeys
\* calls on the same object (with the same source mint) return equal
\* lists.
C19_VenueKeyLists ==
    venueInfo # NULL =>
        LET n == BaseKeyCount(venueInfo)
        IN  /\ \A i \in 1..Len(toKeysCalls) :
                  LET keys == toKeysCalls[i].keys
                  IN  /\ \A k \in 1..Len(keys) : ~keys[k].isSigner
                      /\ Len(keys) = IF HasHostFee(venueInfo)
                                     THEN n + 1 ELSE n
                      /\ keys[n] = Key(venueInfo.fields.programId,
                                       FALSE, FALSE)
                      /\ HasHostFee(venueInfo) =>
                            /\ Len(keys) = 8
                            /\ keys[8] = Key(venueInfo.fields.hostFeeAccount,
                                             FALSE, TRUE)
                      /\ \A j \in 1..Len(toKeysCalls) :
                            toKeysCalls[j].sourceMint
                                = toKeysCalls[i].sourceMint
                            => toKeysCalls[j].keys = keys
                      /\ \A j \in 1..Len(toKeysCalls) :
                            [k \in 1..n |-> toKeysCalls[j].keys[k].isWritable]
                                = [k \in 1..n |-> keys[k].isWritable]
            /\ hostFeeRet # Pending =>
                  hostFeeRet = Return(IF HasHostFee(venueInfo) THEN 1 ELSE 0)

\* toKeys was called twice on a TokenSwapInfo with a host fee account and
\* returned 8 keys both times, and includeHostFeeAccount() returned 1
C19_Witness ==
    /\ venueInfo # NULL
    /\ venueInfo.class = "PoolTokenSwapInfo"
    /\ venueInfo.fields.hostFeeAccount = "ts.hostFeeAccount"
    /\ Len(toKeysCalls) >= 2
    /\ Len(toKeysCalls[1].keys) = 8
    /\ toKeysCalls[2].keys = toKeysCalls[1].keys
    /\ hostFeeRet = Return(1)

(***************************************************************************)
(* loadSerumDexMarket (onesol-protocol.ts): two loadAccount calls run      *)
(* concurrently under Promise.all, then decoding and address derivation    *)
(***************************************************************************)
\* the arguments of the modelled call
\* everything loadSerumDexMarket leaves alone
exceptMarket ==
    <<numVars, helperVars, clientVars, createVars, swapVars, cliVars,
      routeVars, venueVars,
      findVars>>

MarketCall ==
    [pubkey |-> "dex.market", programId |-> "serumDexProgram",
     extPubkey |-> "dex.extMarket",
     extProgramId |-> ONESOL_PROTOCOL_PROGRAM_ID]

\* the owner loadAccount is told to expect, per fetch
ExpectedOwner(f) ==
    IF f = "market" THEN MarketCall.programId ELSE MarketCall.extProgramId

\* account data in layout order; of the Serum market layout only the fields
\* loadSerumDexMarket reads are kept
MarketData ==
    {<<n, "dex.coinVault", "dex.pcVault", "dex.requestQueue",
       "dex.eventQueue", "dex.bids", "dex.asks">> : n \in 0..1}

ExtMarketData ==
    {<<i, 0, 255, m, "pcMint", "coinMint", "dex.openOrders",
       "serumDexProgram">> : i \in {0, 1}, m \in {"dex.market", "dex.other"}}

FetchInfos(f) ==
    {NULL} \cup
    [owner : {MarketCall.programId, MarketCall.extProgramId},
     data : IF f = "market" THEN MarketData ELSE ExtMarketData]

\* Market.getLayout(programId).decode; decoding what is not a buffer throws
Market_decode(b) ==
    IF b.kind # "buffer" THEN Throw("TypeError")
    ELSE [kind |-> "decoded", vaultSignerNonce |-> b.bytes[1],
          baseVault |-> b.bytes[2], quoteVault |-> b.bytes[3],
          requestQueue |-> b.bytes[4], eventQueue |-> b.bytes[5],
          bids |-> b.bytes[6], asks |-> b.bytes[7]]

DexMarketInfoLayout_decode(b) ==
    IF b.kind # "buffer" THEN Throw("TypeError")
    ELSE [kind |-> "decoded", isInitialized |-> b.bytes[1],
          status |-> b.bytes[2], nonce |-> b.bytes[3], market |-> b.bytes[4],
          pcMint |-> b.bytes[5], coinMint |-> b.bytes[6],
          openOrders |-> b.bytes[7], dexProgramId |-> b.bytes[8]]

FirstRejected(fs, order) ==
    LET idx == {i \in 1..Len(order) : fs[order[i]].state = "rejected"}
    IN  order[CHOOSE i \in idx : \A j \in idx : i <= j]

ValueOf(fetch) ==
    IF fetch.state \in {"fulfilled", "rejected"} THEN fetch.value ELSE Pending

\* a combinator that fulfils as soon as one of the promises has fulfilled
Promise_first(fs, order) ==
    IF \E f \in FetchNames : fs[f].state = "fulfilled"
    THEN [state |-> "fulfilled",
          value |-> <<ValueOf(fs["market"]), ValueOf(fs["ext"])>>]
    ELSE IF \E f \in FetchNames : fs[f].state = "rejected"
    THEN [state |-> "rejected", value |-> fs[FirstRejected(fs, order)].value]
    ELSE [state |-> "pending"]

\* Promise.all over [market fetch, ext fetch]: rejected with the first
\* rejection, fulfilled with both values once both have fulfilled
Promise_all(fs, order) ==
    IF \E f \in FetchNames : fs[f].state = "rejected"
    THEN [state |-> "rejected", value |-> fs[FirstRejected(fs, order)].value]
    ELSE IF \A f \in FetchNames : fs[f].state = "fulfilled"
    THEN [state |-> "fulfilled",
          value |-> <<fs["market"].value, fs["ext"].value>>]
    ELSE [state |-> "pending"]

\* the call evaluates both loadAccount(...) array elements, each of which
\* issues its getAccountInfo, before it awaits Promise.all
LoadSerumDexMarket ==
    /\ marketPc = "idle"
    /\ fetches' = [f \in FetchNames |-> [state |-> "inflight"]]
    /\ marketPc' = "awaiting"
    /\ UNCHANGED <<exceptMarket, settleOrder,
                   decodedWith, marketRet>>

\* one getAccountInfo settles and its loadAccount runs to its end
FetchSettles(f) ==
    /\ fetches[f].state = "inflight"
    /\ \/ \E info \in FetchInfos(f) :
            LET loaded == loadAccount(info, ExpectedOwner(f)).ret
            IN  fetches' = [fetches EXCEPT ![f] =
                    [state |-> IF loaded.kind = "throw" THEN "rejected"
                               ELSE "fulfilled",
                     info |-> info, value |-> loaded]]
       \/ fetches' = [fetches EXCEPT ![f] =
              [state |-> "rejected", info |-> Pending,
               value |-> Throw("rpc request failed")]]
    /\ settleOrder' = Append(settleOrder, f)
    /\ UNCHANGED <<exceptMarket, marketPc, decodedWith,
                   marketRet>>

\* the await on Promise.all resumes: rethrow, or decode and compare markets
MarketAwaitResumes ==
    /\ marketPc = "awaiting"
    /\ LET all == Promise_all(fetches, settleOrder)
           marketDecoded == Market_decode(all.value[1])
           extMarketDecoded == DexMarketInfoLayout_decode(all.value[2])
       IN  /\ all.state # "pending"
           /\ IF all.state = "rejected"
              THEN /\ marketRet' = all.value
                   /\ marketPc' = "done"
                   /\ UNCHANGED decodedWith
              ELSE /\ decodedWith' = fetches
                   /\ IF marketDecoded.kind = "throw"
                      THEN marketRet' = marketDecoded /\ marketPc' = "done"
                      ELSE IF extMarketDecoded.kind = "throw"
                      THEN marketRet' = extMarketDecoded /\ marketPc' = "done"
                      ELSE IF extMarketDecoded.market # MarketCall.pubkey
                      THEN /\ marketRet' = Throw("extMarket not equals pubkey")
                           /\ marketPc' = "done"
                      ELSE /\ marketPc' = "deriving"
                           /\ UNCHANGED marketRet
    /\ UNCHANGED <<exceptMarket, fetches, settleOrder>>

\* the await on createProgramAddress resumes
MarketDeriveResumes ==
    /\ marketPc = "deriving"
    /\ LET marketDecoded == Market_decode(decodedWith["market"].value)
           extMarketDecoded ==
               DexMarketInfoLayout_decode(decodedWith["ext"].value)
           vaultSigner ==
               createProgramAddress(MarketCall.pubkey,
                                    marketDecoded.vaultSignerNonce,
                                    MarketCall.programId)
       IN  marketRet' =
             IF vaultSigner.kind = "throw" THEN vaultSigner
             ELSE Return(
                 [class |-> "SerumDexMarketInfo",
                  market |-> MarketCall.pubkey,
                  requestQueue |-> marketDecoded.requestQueue,
                  eventQueue |-> marketDecoded.eventQueue,
                  bids |-> marketDecoded.bids,
                  asks |-> marketDecoded.asks,
                  coinVault |-> marketDecoded.baseVault,
                  pcVault |-> marketDecoded.quoteVault,
                  vaultSigner |-> vaultSigner,
                  openOrders |-> extMarketDecoded.openOrders,
                  programId |-> MarketCall.programId])
    /\ marketPc' = "done"
    /\ UNCHANGED <<exceptMarket, fetches, settleOrder,
                   decodedWith>>

InitMarket ==
    /\ NumberIdle
    /\ ClientIdle
    /\ helper = "none"
    /\ pc = "done"
    /\ accountInfo = NULL
    /\ programId = "none"
    /\ onCurve \in SUBSET (0..1)
    /\ rpcCount = NoRpc
    /\ rejected = FALSE
    /\ checks = <<>>
    /\ lamports = 0
    /\ retries = 0
    /\ nonce = 0
    /\ ret = Pending
    /\ MarketIdle
    /\ CreateIdle
    /\ SwapIdle
    /\ CliIdle
    /\ RouteIdle
    /\ VenueIdle
    /\ FindIdle

NextMarket ==
    \/ LoadSerumDexMarket
    \/ \E f \in FetchNames : FetchSettles(f)
    \/ MarketAwaitResumes
    \/ MarketDeriveResumes

SpecMarket == InitMarket /\ [][NextMarket]_vars

\* a fetch has rejected exactly when its request failed, its account is
\* missing or its account has another owner than the expected one
MustReject(f) ==
    \/ fetches[f].info = Pending
    \/ fetches[f].info = NULL
    \/ fetches[f].info.owner # ExpectedOwner(f)

\* C11: loadSerumDexMarket issues both fetches before it awaits; decoding
\* begins only with both fetches fulfilled; a fetch rejects exactly for a
\* failed request, a missing account or a wrong owner, and once a fetch has
\* rejected the call ends in a throw without decoding and without a
\* SerumDexMarketInfo, in either settlement order.
C11_DecodeAfterBothFetches ==
    /\ marketPc # "idle" => \A f \in FetchNames : fetches[f].state # "idle"
    /\ marketPc = "idle" => \A f \in FetchNames : fetches[f].state = "idle"
    /\ \A f \in FetchNames :
          fetches[f].state \in {"fulfilled", "rejected"} =>
              (fetches[f].state = "rejected" <=> MustReject(f))
    /\ decodedWith # NULL =>
          \A f \in FetchNames : decodedWith[f].state = "fulfilled"
    /\ marketPc = "deriving" =>
          \A f \in FetchNames : fetches[f].state = "fulfilled"
    /\ (\E f \in FetchNames : fetches[f].state = "rejected") =>
          /\ decodedWith = NULL
          /\ marketPc \in {"awaiting", "done"}
          /\ marketPc = "done" => marketRet.kind = "throw"
          /\ marketRet.kind \in {"pending", "throw"}
    /\ marketRet.kind = "return" =>
          /\ marketRet.value.class = "SerumDexMarketInfo"
          /\ \A f \in FetchNames : fetches[f].state = "fulfilled"

\* a SerumDexMarketInfo was returned after the ext fetch settled first
C11_Witness ==
    /\ marketPc = "done"
    /\ marketRet.kind = "return"
    /\ settleOrder = <<"ext", "market">>
    /\ decodedWith # NULL

(***************************************************************************)
(* OneSolProtocol.createOneSolProtocol / loadOneSolProtocol (index.ts,     *)
(* the revision whose protocol account stores a nonce)                     *)
(***************************************************************************)
\* the public key of the generated protocol account
ProtocolAccount == "onesolProtocolAccount"

\* the bump seeds findProgramAddress tries first, any of which may fail
TopBumps == (255 - MaxNonce + 1)..255

\* PublicKey.findProgramAddress: bump seeds from 255 down to 1, the first
\* one whose address is off the curve wins
RECURSIVE findFrom(_, _, _)
findFrom(address, pid, n) ==
    IF n = 0
    THEN Throw("Unable to find a viable program address nonce")
    ELSE IF createProgramAddress(address, n, pid).kind = "throw"
    THEN findFrom(address, pid, n - 1)
    ELSE [kind |-> "found",
          address |-> createProgramAddress(address, n, pid), nonce |-> n]

findProgramAddress(address, pid) == findFrom(address, pid, 255)

\* OneSolProtocolLayout.decode: version, nonce, then three public keys
OneSolProtocolLayout_decode(b) ==
    [version |-> b.bytes[1], nonce |-> b.bytes[2],
     tokenProgramId |-> b.bytes[3], tokenAccount |-> b.bytes[4],
     mint |-> b.bytes[5]]

\* the constructor: every parameter is a property of the object
new_OneSolProtocol(protocolInfo, protocolProgramId, tokenProgramId, tokenAccountKey, authority, n) ==
    [class |-> "OneSolProtocol", protocolInfo |-> protocolInfo,
     protocolProgramId |-> protocolProgramId,
     tokenProgramId |-> tokenProgramId, tokenAccountKey |-> tokenAccountKey,
     authority |-> authority, nonce |-> n]

\* OneSolProtocolLayout: version, nonce and three public keys
OneSolProtocolLayout ==
    <<u8("version"), u8("nonce"),
      [property |-> "tokenProgramId", span |-> 32],
      [property |-> "tokenAccount", span |-> 32],
      [property |-> "mint", span |-> 32]>>

\* the init instruction with the nonce written before the discriminant
createInitSwapInstructionNonceFirst(onesolProtocolAccount, authority, tokenAccount, protocolProgramId, tokenProgramId, n) ==
    LET keys == <<Key(onesolProtocolAccount, FALSE, TRUE),
                  Key(authority, FALSE, FALSE),
                  Key(tokenAccount, FALSE, FALSE),
                  Key(tokenProgramId, FALSE, FALSE)>>
        commandDataLayout == <<u8("nonce"), u8("instruction")>>
        data == Layout_encode(commandDataLayout,
                              [instruction |-> 0, nonce |-> n])
    IN  TransactionInstruction(keys, protocolProgramId, data)

createInitSwapInstruction(onesolProtocolAccount, authority, tokenAccount, protocolProgramId, tokenProgramId, n) ==
    LET keys == <<Key(onesolProtocolAccount, FALSE, TRUE),
                  Key(authority, FALSE, FALSE),
                  Key(tokenAccount, FALSE, FALSE),
                  Key(tokenProgramId, FALSE, FALSE)>>
        commandDataLayout == <<u8("instruction"), u8("nonce")>>
        data == Layout_encode(commandDataLayout,
                              [instruction |-> 0, nonce |-> n])
    IN  TransactionInstruction(keys, protocolProgramId, data)

SystemProgram_createAccount(fromPubkey, newAccountPubkey, balance, space, pid) ==
    TransactionInstruction(<<Key(fromPubkey, TRUE, TRUE),
                             Key(newAccountPubkey, TRUE, TRUE)>>,
                           "SystemProgram",
                           [lamports |-> balance, space |-> space,
                            programId |-> pid])

\* loadOneSolProtocol, from the point where getAccountInfo has resolved
static_loadOneSolProtocol(info, address, pid) ==
    LET loaded == loadAccount(info, pid).ret
        onesolProtocolData == OneSolProtocolLayout_decode(loaded)
        found == findProgramAddress(address, pid)
    IN  IF loaded.kind = "throw" THEN loaded
        ELSE IF onesolProtocolData.version # 1
        THEN Throw("Invalid OneSolProtocol data")
        ELSE IF found.kind = "throw" THEN found
        ELSE Return(new_OneSolProtocol(
                 address, pid, onesolProtocolData.tokenProgramId,
                 onesolProtocolData.tokenAccount, found.address,
                 onesolProtocolData.nonce))

\* the on-chain program's Initialize: the account must be blank and the
\* authority must be the program address of the account under the nonce
ProcessInitialize(account, ix) ==
    LET derived == createProgramAddress(ix.keys[1].pubkey, ix.data[2],
                                        ix.programId)
    IN  IF account.data[1] # 0 THEN Throw("AlreadyInUse")
        ELSE IF derived # ix.keys[2].pubkey
        THEN Throw("InvalidProgramAddress")
        ELSE Return([owner |-> account.owner,
                     data |-> <<1, ix.data[2], ix.keys[4].pubkey,
                                ix.keys[3].pubkey, "mintA">>])

\* nonces and authorities a caller can pass
GivenNonces == (255 - MaxNonce)..255

GivenAuthorities ==
    {[kind |-> "pubkey", seeds |-> <<>>, programId |-> "none"]} \cup
    {createProgramAddress(ProtocolAccount, n, ONESOL_PROTOCOL_PROGRAM_ID) :
        n \in GivenNonces \ onCurve}

\* everything the create / load sequence leaves alone
exceptCreate ==
    <<numVars, helperVars, clientVars, marketVars, swapVars, cliVars,
      routeVars, venueVars,
      findVars>>

\* how getMinimumBalanceForRentExemption(OneSolProtocolLayout.span) settles
RentOutcomes ==
    {Return(890880), Return(1572960), Throw("rpc request failed")}

\* createOneSolProtocol up to the point where the transaction is sent, or
\* where the rent request rejects
CreateOneSolProtocolSends ==
    /\ roundPc = "idle"
    /\ \E tokenAccountKey \in {"tokenAAccount", "tokenBAccount"},
          authority \in GivenAuthorities, n \in GivenNonces,
          balanceNeeded \in RentOutcomes :
          /\ given' = new_OneSolProtocol(
                          ProtocolAccount, ONESOL_PROTOCOL_PROGRAM_ID,
                          TOKEN_PROGRAM_ID, tokenAccountKey, authority, n)
          /\ rentFetched' = balanceNeeded
          /\ IF balanceNeeded.kind = "throw"
             THEN /\ createRet' = balanceNeeded
                  /\ roundPc' = "failed"
                  /\ UNCHANGED <<transaction, txSigners>>
             ELSE /\ transaction' =
                       <<SystemProgram_createAccount(
                             "payer", ProtocolAccount, balanceNeeded.value,
                             Layout_span(OneSolProtocolLayout),
                             ONESOL_PROTOCOL_PROGRAM_ID),
                         createInitSwapInstruction(
                             ProtocolAccount, authority, tokenAccountKey,
                             ONESOL_PROTOCOL_PROGRAM_ID, TOKEN_PROGRAM_ID, n)>>
                  /\ txSigners' = <<"payer", ProtocolAccount>>
                  /\ roundPc' = "sent"
                  /\ UNCHANGED createRet
    /\ UNCHANGED <<exceptCreate, chainAccount, loadCall, loadRet>>

\* the transaction settles: both instructions take effect or neither does
TransactionSettles ==
    /\ roundPc = "sent"
    /\ LET blank == [owner |-> transaction[1].data.programId,
                     data |-> <<0, 0, NULL_KEY, NULL_KEY, NULL_KEY>>]
           initialized == ProcessInitialize(blank, transaction[2])
       IN  \/ /\ chainAccount = NULL
              /\ initialized.kind = "return"
              /\ chainAccount' = initialized.value
              /\ createRet' = Return(given)
              /\ roundPc' = "confirmed"
           \/ /\ chainAccount # NULL \/ initialized.kind = "throw"
              /\ createRet' = Throw("Transaction failed")
              /\ roundPc' = "failed"
              /\ UNCHANGED chainAccount
           \/ /\ createRet' = Throw("rpc request failed")
              /\ roundPc' = "failed"
              /\ UNCHANGED chainAccount
    /\ UNCHANGED <<exceptCreate, given, transaction, txSigners, rentFetched,
                   loadCall, loadRet>>

\* loadOneSolProtocol on the protocol account address
LoadOneSolProtocol ==
    /\ roundPc \in {"idle", "confirmed", "failed"}
    /\ \E pid \in {ONESOL_PROTOCOL_PROGRAM_ID, "otherProgram"},
          rpcFails \in BOOLEAN :
          /\ loadCall' = [address |-> ProtocolAccount, programId |-> pid,
                          rejected |-> rpcFails]
          /\ loadRet' =
               IF rpcFails THEN Throw("rpc request failed")
               ELSE static_loadOneSolProtocol(chainAccount, ProtocolAccount,
                                              pid)
    /\ roundPc' = "loaded"
    /\ UNCHANGED <<exceptCreate, chainAccount, given, transaction, txSigners,
                   rentFetched, createRet>>

InitCreate ==
    /\ NumberIdle
    /\ ClientIdle
    /\ MarketIdle
    /\ SwapIdle
    /\ CliIdle
    /\ RouteIdle
    /\ VenueIdle
    /\ FindIdle
    /\ helper = "none"
    /\ pc = "done"
    /\ accountInfo = NULL
    /\ programId = "none"
    /\ onCurve \in SUBSET TopBumps
    /\ rpcCount = NoRpc
    /\ rejected = FALSE
    /\ checks = <<>>
    /\ lamports = 0
    /\ retries = 0
    /\ nonce = 0
    /\ ret = Pending
    /\ chainAccount \in
          {NULL} \cup
          {[owner |-> ONESOL_PROTOCOL_PROGRAM_ID,
            data |-> <<v, 255, TOKEN_PROGRAM_ID, "tokenAAccount", "mintA">>] :
              v \in 0..2}
    /\ given = NULL
    /\ transaction = <<>>
    /\ txSigners = <<>>
    /\ rentFetched = Pending
    /\ roundPc = "idle"
    /\ createRet = Pending
    /\ loadCall = NULL
    /\ loadRet = Pending

NextCreate ==
    \/ CreateOneSolProtocolSends
    \/ TransactionSettles
    \/ LoadOneSolProtocol

SpecCreate == InitCreate /\ [][NextCreate]_vars

\* loadOneSolProtocol ran, on the address and program id of a confirmed
\* createOneSolProtocol, and its request was answered
LoadedAfterCreate ==
    /\ roundPc = "loaded"
    /\ createRet.kind = "return"
    /\ loadCall.programId = given.protocolProgramId
    /\ ~loadCall.rejected

\* C13: after a confirmed createOneSolProtocol, loadOneSolProtocol on the
\* same address and program id returns an object whose tokenProgramId,
\* tokenAccountKey, authority and nonce are the values given at creation;
\* loadOneSolProtocol throws 'Invalid OneSolProtocol data' when the decoded
\* version is not 1.
C13_CreateLoadRoundTrip ==
    /\ LoadedAfterCreate =>
          /\ loadRet.kind = "return"
          /\ loadRet.value.tokenProgramId = given.tokenProgramId
          /\ loadRet.value.tokenAccountKey = given.tokenAccountKey
          /\ loadRet.value.authority = given.authority
          /\ loadRet.value.nonce = given.nonce
    /\ (/\ roundPc = "loaded"
        /\ ~loadCall.rejected
        /\ chainAccount # NULL
        /\ chainAccount.owner = loadCall.programId
        /\ chainAccount.data[1] # 1) =>
          loadRet = Throw("Invalid OneSolProtocol data")

\* C27: createOneSolProtocol submits one transaction of exactly two
\* instructions in this order: the system createAccount for the protocol
\* account (space = OneSolProtocolLayout.span, owner = protocolProgramId,
\* lamports = the rent-exempt minimum fetched beforehand), then the init
\* instruction (discriminant 0 followed by the nonce); it is signed by the
\* payer and the protocol account; the OneSolProtocol object is returned
\* only after the transaction is confirmed, never when the rent request or
\* the submission rejects.
C27_CreateSubmitsTwo ==
    /\ transaction # <<>> =>
          /\ rentFetched.kind = "return"
          /\ Len(transaction) = 2
          /\ transaction[1].programId = "SystemProgram"
          /\ transaction[1].keys = <<Key("payer", TRUE, TRUE),
                                     Key(given.protocolInfo, TRUE, TRUE)>>
          /\ transaction[1].data = [lamports |-> rentFetched.value,
                                    space |-> 98,
                                    programId |-> given.protocolProgramId]
          /\ transaction[2].programId = given.protocolProgramId
          /\ transaction[2].data = <<0, given.nonce>>
          /\ transaction[2].keys[1].pubkey = given.protocolInfo
          /\ txSigners = <<"payer", given.protocolInfo>>
    /\ rentFetched.kind = "throw" =>
          /\ transaction = <<>>
          /\ createRet = rentFetched
    /\ roundPc = "sent" => createRet = Pending
    /\ createRet.kind = "return" =>
          /\ createRet.value = given
          /\ transaction # <<>>
          /\ chainAccount # NULL
          /\ chainAccount.data[1] = 1
          /\ chainAccount.data[2] = given.nonce
    /\ createRet = Throw("Transaction failed") => transaction # <<>>

\* a creation under nonce 255 paid 1572960 lamports of rent, was confirmed
\* and returned the object
C27_Witness ==
    /\ createRet.kind = "return"
    /\ given.nonce = 255
    /\ Len(transaction) = 2
    /\ transaction[1].data.lamports = 1572960
    /\ transaction[2].data = <<0, 255>>
    /\ chainAccount.data[1] = 1

(***************************************************************************)
(* OneSolProtocol.swap (index.ts, first revision) and its settlement       *)
(***************************************************************************)
\* the client object the CLI swap test holds
SwapClient ==
    [onesolProtocol |-> "onesolProtocol", tokenSwap |-> "tokenSwap",
     protocolProgramId |-> ONESOL_PROTOCOL_PROGRAM_ID,
     tokenSwapProgramId |-> "tokenSwapProgram",
     tokenProgramId |-> TOKEN_PROGRAM_ID, poolToken |-> "tokenPool",
     feeAccount |-> "feeAccount", onesolAuthority |-> "onesolAuthority",
     tokenSwapAuthority |-> "tokenSwapAuthority"]

\* swapInstruction with the two amounts written in each other's place
index1_swapInstructionAmountsSwapped(a) ==
    LET dataLayout == <<u8("instruction"), uint64("amountIn"),
                        uint64("minimumAmountOut")>>
        dataMap == [instruction |-> 1,
                    amountIn |-> toBuffer(a.minimumAmountOut),
                    minimumAmountOut |-> toBuffer(a.amountIn)]
        keys == <<Key(a.onesolProtocol, FALSE, FALSE),
                  Key(a.tokenSwap, FALSE, FALSE),
                  Key(a.onesolAuthority, FALSE, FALSE),
                  Key(a.tokenSwapAuthority, FALSE, FALSE),
                  Key(a.userTransferAuthority, TRUE, FALSE),
                  Key(a.userSource, FALSE, TRUE),
                  Key(a.onesolSource, FALSE, TRUE),
                  Key(a.poolSource, FALSE, TRUE),
                  Key(a.poolDestination, FALSE, TRUE),
                  Key(a.onesolDestination, FALSE, TRUE),
                  Key(a.userDestination, FALSE, TRUE),
                  Key(a.poolMint, FALSE, TRUE),
                  Key(a.feeAccount, FALSE, TRUE),
                  Key(a.tokenProgramId, FALSE, FALSE),
                  Key(a.tokenSwapProgramId, FALSE, FALSE)>>
                 \o (IF a.hostFeeAccount # NULL_KEY
                     THEN <<Key(a.hostFeeAccount, FALSE, TRUE)>> ELSE <<>>)
    IN  Assemble(dataLayout, dataMap, keys, a.protocolProgramId)

\* OneSolProtocol.swapInstruction
index1_swapInstruction(a) ==
    LET dataLayout == <<u8("instruction"), uint64("amountIn"),
                        uint64("minimumAmountOut")>>
        dataMap == [instruction |-> 1,
                    amountIn |-> toBuffer(a.amountIn),
                    minimumAmountOut |-> toBuffer(a.minimumAmountOut)]
        keys == <<Key(a.onesolProtocol, FALSE, FALSE),
                  Key(a.tokenSwap, FALSE, FALSE),
                  Key(a.onesolAuthority, FALSE, FALSE),
                  Key(a.tokenSwapAuthority, FALSE, FALSE),
                  Key(a.userTransferAuthority, TRUE, FALSE),
                  Key(a.userSource, FALSE, TRUE),
                  Key(a.onesolSource, FALSE, TRUE),
                  Key(a.poolSource, FALSE, TRUE),
                  Key(a.poolDestination, FALSE, TRUE),
                  Key(a.onesolDestination, FALSE, TRUE),
                  Key(a.userDestination, FALSE, TRUE),
                  Key(a.poolMint, FALSE, TRUE),
                  Key(a.feeAccount, FALSE, TRUE),
                  Key(a.tokenProgramId, FALSE, FALSE),
                  Key(a.tokenSwapProgramId, FALSE, FALSE)>>
                 \o (IF a.hostFeeAccount # NULL_KEY
                     THEN <<Key(a.hostFeeAccount, FALSE, TRUE)>> ELSE <<>>)
    IN  Assemble(dataLayout, dataMap, keys, a.protocolProgramId)

\* the arguments swap() hands to swapInstruction
SwapInstructionArgs(this, c) ==
    [onesolProtocol |-> this.onesolProtocol, tokenSwap |-> this.tokenSwap,
     onesolAuthority |-> this.onesolAuthority,
     tokenSwapAuthority |-> this.tokenSwapAuthority,
     userTransferAuthority |-> c.userTransferAuthority,
     userSource |-> c.userSource, onesolSource |-> c.onesolSource,
     poolSource |-> c.poolSource, poolDestination |-> c.poolDestination,
     onesolDestination |-> c.onesolDestination,
     userDestination |-> c.userDestination, poolMint |-> this.poolToken,
     feeAccount |-> this.feeAccount, hostFeeAccount |-> c.hostFeeAccount,
     protocolProgramId |-> this.protocolProgramId,
     tokenProgramId |-> this.tokenProgramId,
     tokenSwapProgramId |-> this.tokenSwapProgramId,
     amountIn |-> c.amountIn, minimumAmountOut |-> c.minimumAmountOut]

\* the value of 8 little-endian bytes, as the program reads an amount
RECURSIVE u64_le(_)
u64_le(bytes) ==
    IF bytes = <<>> THEN 0 ELSE Head(bytes) + 256 * u64_le(Tail(bytes))

\* the on-chain program's Swap: all-or-nothing, bounded by the minimum
ProcessSwap(bal, ix, out) ==
    LET amountIn == u64_le(SubSeq(ix.data, 2, 9))
        minimumAmountOut == u64_le(SubSeq(ix.data, 10, 17))
        userSource == ix.keys[6].pubkey
        poolSource == ix.keys[8].pubkey
        poolDestination == ix.keys[9].pubkey
        userDestination == ix.keys[11].pubkey
    IN  IF ix.data[1] # 1 THEN Throw("InvalidInstruction")
        ELSE IF bal[userSource] < amountIn THEN Throw("InsufficientFunds")
        ELSE IF bal[poolDestination] < out THEN Throw("InsufficientFunds")
        ELSE IF out < minimumAmountOut THEN Throw("ExceededSlippage")
        ELSE Return([bal EXCEPT ![userSource] = @ - amountIn,
                                ![poolSource] = @ + amountIn,
                                ![poolDestination] = @ - out,
                                ![userDestination] = @ + out])

TokenAccounts ==
    {"userAccountA", "onesolAccountA", "tokenAccountA", "tokenAccountB",
     "onesolAccountB", "userAccountB"}

\* amounts a caller passes: small ones, one of two bytes, and 2^64
SwapAmounts == {<<>>, <<1>>, <<3>>, <<44, 1>>, <<0, 0, 0, 0, 0, 0, 0, 0, 1>>}

\* output amounts the venue can give
Quotes == {0, 1, 3, 300}

\* everything the swap leaves alone
exceptSwap ==
    <<numVars, helperVars, clientVars, marketVars, createVars, cliVars,
      routeVars, venueVars,
      findVars>>

\* swap(): build the instruction and send the transaction
Swap ==
    /\ swapPc = "idle"
    /\ \E amountIn \in SwapAmounts, minimumAmountOut \in SwapAmounts,
          hostFeeAccount \in {NULL_KEY, "poolAccount"} :
          LET c == [userSource |-> "userAccountA",
                    onesolSource |-> "onesolAccountA",
                    poolSource |-> "tokenAccountA",
                    poolDestination |-> "tokenAccountB",
                    onesolDestination |-> "onesolAccountB",
                    userDestination |-> "userAccountB",
                    hostFeeAccount |-> hostFeeAccount,
                    userTransferAuthority |-> "userTransferAuthority",
                    amountIn |-> amountIn,
                    minimumAmountOut |-> minimumAmountOut]
              ix == index1_swapInstruction(SwapInstructionArgs(SwapClient, c))
          IN  /\ swapCall' = c
              /\ IF ix.kind = "throw"
                 THEN /\ swapRet' = ix
                      /\ swapPc' = "done"
                      /\ UNCHANGED swapTx
                 ELSE /\ swapTx' = ix
                      /\ swapPc' = "sent"
                      /\ UNCHANGED swapRet
    /\ balancesBefore' = balances
    /\ UNCHANGED <<exceptSwap, balances, quoted>>

\* the transaction settles: confirmed with its effects, or failed without
SwapSettles ==
    /\ swapPc = "sent"
    /\ \E out \in Quotes :
          LET processed == ProcessSwap(balances, swapTx, out)
          IN  /\ quoted' = out
              /\ IF processed.kind = "throw"
                 THEN /\ swapRet' = Throw("Transaction failed")
                      /\ UNCHANGED balances
                 ELSE /\ swapRet' = Return("signature")
                      /\ balances' = processed.value
    /\ swapPc' = "done"
    /\ UNCHANGED <<exceptSwap, balancesBefore, swapCall, swapTx>>

InitSwap ==
    /\ NumberIdle
    /\ HelpersIdle
    /\ ClientIdle
    /\ MarketIdle
    /\ CreateIdle
    /\ CliIdle
    /\ RouteIdle
    /\ VenueIdle
    /\ FindIdle
    /\ \E userA \in {3, 300}, poolB \in {2, 1000} :
          balances = [t \in TokenAccounts |->
                         IF t = "userAccountA" THEN userA
                         ELSE IF t = "tokenAccountA" THEN 1000
                         ELSE IF t = "tokenAccountB" THEN poolB
                         ELSE 0]
    /\ balancesBefore = <<>>
    /\ swapCall = NULL
    /\ swapTx = NULL
    /\ quoted = 0
    /\ swapPc = "idle"
    /\ swapRet = Pending

NextSwap ==
    \/ Swap
    \/ SwapSettles

SpecSwap == InitSwap /\ [][NextSwap]_vars

\* the number a caller's amount stands for (amounts below 2^16)
AmountOf(n) == u64_le(n)

\* what an account gained since swap was called
Gained(t) == balances[t] - balancesBefore[t]

part7_swapInstruction(a) ==
    LET dataLayout ==
            <<u8("instruction"),
              uint64("amountIn"),
              uint64("minimumAmountOut"),
              u8("nonce"),
              u8("dexesConfig"),
              u8("tokenSwapFlag"),
              u8("tokenSwapAccountsSize"),
              u8("tokenSwap1Flag"),
              u8("tokenSwap1AccountsSize")>>
        tsFlag == IF a.tokenSwapInfo # NULL THEN 1 ELSE 0
        tsKeys == IF a.tokenSwapInfo # NULL
                  THEN PoolTokenSwapInfo_toKeys(a.tokenSwapInfo) ELSE <<>>
        ts1Flag == IF a.tokenSwap1Info # NULL THEN 1 ELSE 0
        ts1Keys == IF a.tokenSwap1Info # NULL
                   THEN PoolTokenSwapInfo_toKeys(a.tokenSwap1Info) ELSE <<>>
        dataMap ==
            [instruction |-> 1,
             amountIn |-> toBuffer(a.amountIn),
             minimumAmountOut |-> toBuffer(a.minimumAmountOut),
             nonce |-> a.nonce,
             dexesConfig |-> 2,
             tokenSwapFlag |-> tsFlag,
             tokenSwapAccountsSize |-> Len(tsKeys),
             tokenSwap1Flag |-> ts1Flag,
             tokenSwap1AccountsSize |-> Len(tsKeys)]
        keys ==
            <<Key(a.middleOwnerInfo, FALSE, FALSE),
              Key(a.userTransferAuthority, TRUE, FALSE),
              Key(a.userSource, FALSE, TRUE),
              Key(a.middleSource, FALSE, TRUE),
              Key(a.middleDestination, FALSE, TRUE),
              Key(a.userDestination, FALSE, TRUE),
              Key(a.tokenProgramId, FALSE, FALSE)>>
            \o tsKeys \o ts1Keys
    IN  Assemble(dataLayout, dataMap, keys, a.protocolProgramId)

\* dataLayout.endCode(dataMap, data): the struct has no such method
Layout_endCode(layout, dataMap) ==
    Throw("TypeError: dataLayout.endCode is not a function")

RECURSIVE ConcatKeys(_)
\* the keys the forEach over tokenSwapInfos pushes, in list order
ConcatKeys(infos) ==
    IF infos = <<>> THEN <<>>
    ELSE PoolTokenSwapInfo_toKeys(Head(infos)) \o ConcatKeys(Tail(infos))

\* OneSolProtocol.swapInstruction of the ratio revision: bflStruct.concat
\* returns a new array that is dropped, so the layout keeps its four
\* fields; the data is never encoded because endCode is called
index2_swapInstruction(a) ==
    LET bflStruct ==
            <<u8("instruction"),
              uint64("amountIn"),
              uint64("minimumAmountOut"),
              u8("dexesConfig")>>
        dataMap ==
            [instruction |-> 1,
             amountIn |-> toBuffer(a.amountIn),
             minimumAmountOut |-> toBuffer(a.minimumAmountOut),
             dexesConfig |-> Len(a.tokenSwapInfos)]
        keys ==
            <<Key(a.protocolAccount, FALSE, FALSE),
              Key(a.authority, FALSE, FALSE),
              Key(a.userTransferAuthority, TRUE, FALSE),
              Key(a.protocolToken, FALSE, TRUE),
              Key(a.userSource, FALSE, TRUE),
              Key(a.userDestination, FALSE, TRUE),
              Key(a.tokenProgramId, FALSE, FALSE)>>
            \o ConcatKeys(a.tokenSwapInfos)
        dataLayout == bflStruct
        data == Layout_endCode(dataLayout, dataMap)
    IN  IF ThrownFields(dataLayout, dataMap) # <<>>
        THEN dataMap[Head(ThrownFields(dataLayout, dataMap)).property]
        ELSE IF data.kind = "throw" THEN data
        ELSE TransactionInstruction(keys, a.protocolProgramId, data)

\* new Transaction().add(instruction), with the accounts that sign it
Transaction(instruction, signerSeq) ==
    [instructions |-> <<instruction>>, signers |-> signerSeq]

\* TokenSwapInfo | null arguments of the two-venue swap
OptionalInfos == {NULL} \cup PoolTokenSwapInfos

\* the tokenSwapInfos lists of the ratio swap
InfoLists == UNION {[1..n -> PoolTokenSwapInfos] : n \in 0..MaxInfos}

\* (amountIn, minimumAmountOut) pairs a caller passes
AmountPairs == (AmountSamples \cup {<<1>>}) \X (AmountSamples \cup {<<1>>})

\* swap() of the two-venue revision, up to the submission
part7_swap ==
    /\ swapPc = "idle"
    /\ \E tokenSwapInfo \in OptionalInfos, tokenSwap1Info \in OptionalInfos,
          amounts \in AmountPairs, nonceByte \in {0, 254} :
          LET c == [method |-> "part7_swap",
                    tokenSwapInfo |-> tokenSwapInfo,
                    tokenSwap1Info |-> tokenSwap1Info,
                    tokenSwapInfos |-> <<>>,
                    amountIn |-> amounts[1],
                    minimumAmountOut |-> amounts[2],
                    nonce |-> nonceByte]
              ix == part7_swapInstruction(
                        [middleOwnerInfo |-> "middleOwner",
                         userTransferAuthority |-> "userTransferAuthority",
                         userSource |-> "userSource",
                         middleSource |-> "middleSource",
                         middleDestination |-> "middleDestination",
                         userDestination |-> "userDestination",
                         tokenProgramId |-> TOKEN_PROGRAM_ID,
                         tokenSwapInfo |-> tokenSwapInfo,
                         tokenSwap1Info |-> tokenSwap1Info,
                         protocolProgramId |-> ONESOL_PROTOCOL_PROGRAM_ID,
                         amountIn |-> amounts[1],
                         minimumAmountOut |-> amounts[2],
                         nonce |-> nonceByte])
          IN  /\ swapCall' = c
              /\ IF tokenSwapInfo = NULL /\ tokenSwap1Info = NULL
                 THEN /\ swapRet' =
                            Throw("tokenSwapInfo and tokenSwap1Info all null")
                      /\ swapPc' = "done"
                      /\ UNCHANGED swapTx
                 ELSE IF ix.kind = "throw"
                 THEN /\ swapRet' = ix
                      /\ swapPc' = "done"
                      /\ UNCHANGED swapTx
                 ELSE /\ swapTx' = Transaction(
                                       ix, <<"payer", "userTransferAuthority">>)
                      /\ swapPc' = "sent"
                      /\ UNCHANGED swapRet
    /\ UNCHANGED <<exceptSwap, balances, balancesBefore, quoted>>

\* swap() of the ratio revision, up to the submission
index2_swap ==
    /\ swapPc = "idle"
    /\ \E tokenSwapInfos \in InfoLists, amounts \in AmountPairs :
          LET c == [method |-> "index2_swap",
                    tokenSwapInfo |-> NULL,
                    tokenSwap1Info |-> NULL,
                    tokenSwapInfos |-> tokenSwapInfos,
                    amountIn |-> amounts[1],
                    minimumAmountOut |-> amounts[2],
                    nonce |-> 0]
              ix == index2_swapInstruction(
                        [protocolAccount |-> "protocolInfo",
                         authority |-> "authority",
                         userTransferAuthority |-> "userTransferAuthority",
                         protocolToken |-> "tokenAccountKey",
                         userSource |-> "userSource",
                         userDestination |-> "userDestination",
                         tokenProgramId |-> TOKEN_PROGRAM_ID,
                         tokenSwapInfos |-> tokenSwapInfos,
                         ratios |-> [i \in 1..Len(tokenSwapInfos) |-> 50],
                         protocolProgramId |-> ONESOL_PROTOCOL_PROGRAM_ID,
                         amountIn |-> amounts[1],
                         minimumAmountOut |-> amounts[2]])
          IN  /\ swapCall' = c
              /\ IF Len(tokenSwapInfos) < 1
                 THEN /\ swapRet' = Throw("tokenSwapnfos must not be empty")
                      /\ swapPc' = "done"
                      /\ UNCHANGED swapTx
                 ELSE IF ix.kind = "throw"
                 THEN /\ swapRet' = ix
                      /\ swapPc' = "done"
                      /\ UNCHANGED swapTx
                 ELSE /\ swapTx' = Transaction(
                                       ix, <<"payer", "userTransferAuthority">>)
                      /\ swapPc' = "sent"
                      /\ UNCHANGED swapRet
    /\ UNCHANGED <<exceptSwap, balances, balancesBefore, quoted>>

\* sendAndConfirmTransaction settles: confirmed, or rejected
SendSettles ==
    /\ swapPc = "sent"
    /\ \E outcome \in {Return("signature"), Throw("Transaction failed")} :
          swapRet' = outcome
    /\ swapPc' = "done"
    /\ UNCHANGED <<exceptSwap, balances, balancesBefore, quoted, swapCall,
                   swapTx>>

InitVenueSwap ==
    /\ NumberIdle
    /\ HelpersIdle
    /\ ClientIdle
    /\ MarketIdle
    /\ CreateIdle
    /\ CliIdle
    /\ RouteIdle
    /\ VenueIdle
    /\ FindIdle
    /\ SwapIdle

NextVenueSwap ==
    \/ part7_swap
    \/ index2_swap
    \/ SendSettles

SpecVenueSwap == InitVenueSwap /\ [][NextVenueSwap]_vars

(***************************************************************************)
(* Claims about the swap of the later revisions                            *)
(***************************************************************************)
\* the number of keys an optional TokenSwapInfo contributes
KeysOfOptional(info) ==
    IF info = NULL THEN 0
    ELSE IF info.hostFeeAccount # NULL_KEY THEN 8 ELSE 7

\* C23: in the two-venue swapInstruction, for each of tokenSwapInfo and
\* tokenSwap1Info the encoded flag is 1 exactly when the info is non-null
\* and the encoded accounts size is the number of keys that info
\* contributed to the key list (0 when null), so the key list has 7 plus
\* tokenSwapAccountsSize plus tokenSwap1AccountsSize keys.
C23_FlagsAndSizes ==
    (swapCall # NULL /\ swapCall.method = "part7_swap" /\ swapTx # NULL) =>
        LET ix == swapTx.instructions[1]
            tokenSwapFlag == ix.data[20]
            tokenSwapAccountsSize == ix.data[21]
            tokenSwap1Flag == ix.data[22]
            tokenSwap1AccountsSize == ix.data[23]
        IN  /\ tokenSwapFlag = (IF swapCall.tokenSwapInfo # NULL
                                THEN 1 ELSE 0)
            /\ tokenSwap1Flag = (IF swapCall.tokenSwap1Info # NULL
                                 THEN 1 ELSE 0)
            /\ tokenSwapAccountsSize = KeysOfOptional(swapCall.tokenSwapInfo)
            /\ tokenSwap1AccountsSize
                   = KeysOfOptional(swapCall.tokenSwap1Info)
            /\ Len(ix.keys)
                   = 7 + tokenSwapAccountsSize + tokenSwap1AccountsSize

RECURSIVE SumKeys(_)
\* the number of keys a list of TokenSwapInfo contributes
SumKeys(infos) ==
    IF infos = <<>> THEN 0
    ELSE KeysOfOptional(Head(infos)) + SumKeys(Tail(infos))

\* C24: in the ratio-based swapInstruction, for a list of n infos the call
\* returns an instruction whose data holds dexesConfig = n followed by n
\* (type = 0, accountsSize, ratio) triples, so that the data has 18 + 3n
\* bytes, and whose key list is the 7 header keys followed by each info's
\* keys in list order, accountsSize of entry i being the number of keys of
\* info i (amounts below 2^64, n at least 1).
C24_RatioSwapData ==
    (/\ swapCall # NULL
     /\ swapCall.method = "index2_swap"
     /\ Len(swapCall.tokenSwapInfos) >= 1
     /\ Len(swapCall.amountIn) <= 8
     /\ Len(swapCall.minimumAmountOut) <= 8) =>
        /\ swapTx # NULL
        /\ LET ix == swapTx.instructions[1]
               n == Len(swapCall.tokenSwapInfos)
           IN  /\ Len(ix.data) = 18 + 3 * n
               /\ ix.data[18] = n
               /\ \A i \in 1..n :
                     /\ ix.data[18 + 3 * (i - 1) + 1] = 0
                     /\ ix.data[18 + 3 * (i - 1) + 2]
                            = KeysOfOptional(swapCall.tokenSwapInfos[i])
               /\ Len(ix.keys) = 7 + SumKeys(swapCall.tokenSwapInfos)

\* the call named a venue
HasVenue ==
    IF swapCall.method = "part7_swap"
    THEN swapCall.tokenSwapInfo # NULL \/ swapCall.tokenSwap1Info # NULL
    ELSE Len(swapCall.tokenSwapInfos) >= 1

\* C28: swap never submits a transaction without a venue: it rejects and
\* makes no RPC call when tokenSwapInfo and tokenSwap1Info are both null
\* (two-venue revision) or when the tokenSwapInfos list is empty (ratio
\* revision); in every other case exactly one transaction with exactly one
\* swap instruction is submitted, signed by the payer and the user transfer
\* authority (amounts below 2^64).
C28_SwapNeedsVenue ==
    (/\ swapCall # NULL
     /\ Len(swapCall.amountIn) <= 8
     /\ Len(swapCall.minimumAmountOut) <= 8) =>
        IF ~HasVenue
        THEN /\ swapRet.kind = "throw"
             /\ swapTx = NULL
        ELSE /\ swapTx # NULL
             /\ Len(swapTx.instructions) = 1
             /\ swapTx.instructions[1].data[1] = 1
             /\ swapTx.signers = <<"payer", "userTransferAuthority">>

(***************************************************************************)
(* findSwapInfo (onesol-protocol.ts): one getProgramAccounts request with  *)
(* a size filter and an owner filter, then the first account is decoded    *)
(***************************************************************************)
SwapInfoLayout ==
    <<u8("isInitialized"),
      u8("status"),
      uint64("tokenLatestAmount"),
      [property |-> "owner", span |-> 32],
      [property |-> "tokenAccountOption", span |-> 4],
      [property |-> "tokenAccount", span |-> 32]>>

\* SwapInfoLayout.decode: one value per field, in layout order
SwapInfoLayout_decode(data) ==
    [isInitialized |-> data[1], status |-> data[2],
     tokenLatestAmount |-> data[3], owner |-> data[4],
     tokenAccountOption |-> data[5], tokenAccount |-> data[6]]

Wallets == {"walletA", "walletB"}

\* what an address of the cluster can hold: an account of the protocol or
\* of another program, of the size of a SwapInfo or of a token account
AccountsAt(pubkey) ==
    {[pubkey |-> pubkey, owner |-> o, size |-> sz,
      data |-> <<1, 0, <<0, 0, 0, 0, 0, 0, 0, 0>>, w, opt, t>>] :
        o \in {ONESOL_PROTOCOL_PROGRAM_ID, "otherProgram"},
        sz \in {Layout_span(SwapInfoLayout), 165},
        w \in Wallets,
        opt \in {0, 1},
        t \in {"swapTokenAccount"}}

\* the accounts the cluster can hold at the two addresses
Clusters ==
    {x \cup y : x \in {{}} \cup {{a} : a \in AccountsAt("swapInfo1")},
                y \in {{}} \cup {{a} : a \in AccountsAt("swapInfo2")}}

\* the accounts getProgramAccounts(programId, {filters}) selects: owned by
\* the program, of the given data size, with the wallet at the owner offset
getProgramAccounts(accounts, pid, dataSize, wallet) ==
    {a \in accounts : /\ a.owner = pid
                      /\ a.size = dataSize
                      /\ a.data[4] = wallet}

\* the orders in which the RPC node can list a set of accounts
Listings(S) ==
    {l \in UNION {[1..n -> S] : n \in {Cardinality(S)}} :
        \A i, j \in 1..Len(l) : i # j => l[i] # l[j]}

\* findSwapInfo with null and the token account exchanged
findSwapInfoOptionInverted(listed) ==
    IF listed = <<>> THEN Return(NULL)
    ELSE LET accountItem == listed[1]
             decoded == SwapInfoLayout_decode(accountItem.data)
             tokenAccount == IF decoded.tokenAccountOption = 0
                             THEN decoded.tokenAccount
                             ELSE NULL_KEY
         IN  Return([pubkey |-> accountItem.pubkey,
                     programId |-> accountItem.owner,
                     isInitialized |-> decoded.isInitialized,
                     status |-> decoded.status,
                     tokenLatestAmount |-> decoded.tokenLatestAmount,
                     owner |-> decoded.owner,
                     tokenAccount |-> tokenAccount])

\* findSwapInfo from the point where getProgramAccounts has resolved
findSwapInfo(listed) ==
    IF listed = <<>> THEN Return(NULL)
    ELSE LET accountItem == listed[1]
             decoded == SwapInfoLayout_decode(accountItem.data)
             tokenAccount == IF decoded.tokenAccountOption = 0
                             THEN NULL_KEY
                             ELSE decoded.tokenAccount
         IN  Return([pubkey |-> accountItem.pubkey,
                     programId |-> accountItem.owner,
                     isInitialized |-> decoded.isInitialized,
                     status |-> decoded.status,
                     tokenLatestAmount |-> decoded.tokenLatestAmount,
                     owner |-> decoded.owner,
                     tokenAccount |-> tokenAccount])

exceptFind ==
    <<numVars, helperVars, clientVars, marketVars, createVars, swapVars,
      cliVars, routeVars, venueVars>>

\* one call of findSwapInfo({wallet}): the request resolves with a listing
\* of the matching accounts, or rejects
FindSwapInfo ==
    /\ findCall = NULL
    /\ \E wallet \in Wallets, rpcFails \in BOOLEAN :
          LET matching == getProgramAccounts(
                              programAccounts, ONESOL_PROTOCOL_PROGRAM_ID,
                              Layout_span(SwapInfoLayout), wallet)
          IN  \E listed \in Listings(matching) :
                 /\ findCall' = [wallet |-> wallet,
                                 listed |-> IF rpcFails THEN <<>> ELSE listed,
                                 rejected |-> rpcFails]
                 /\ findRet' = IF rpcFails THEN Throw("rpc request failed")
                               ELSE findSwapInfo(listed)
    /\ UNCHANGED <<exceptFind, programAccounts>>

\* another program or wallet creates or replaces an account of the cluster
\* before the request
ClusterChanges ==
    /\ findCall = NULL
    /\ programAccounts' \in Clusters
    /\ programAccounts' # programAccounts
    /\ Cardinality(programAccounts') = Cardinality(programAccounts) + 1
    /\ UNCHANGED <<exceptFind, findCall, findRet>>

InitFind ==
    /\ NumberIdle
    /\ HelpersIdle
    /\ ClientIdle
    /\ MarketIdle
    /\ CreateIdle
    /\ SwapIdle
    /\ CliIdle
    /\ RouteIdle
    /\ VenueIdle
    /\ programAccounts = {}
    /\ findCall = NULL
    /\ findRet = Pending

NextFind ==
    \/ FindSwapInfo
    \/ ClusterChanges

SpecFind == InitFind /\ [][NextFind]_vars

\* the accounts of the cluster that pass the two filters of the last call
Matching ==
    {a \in programAccounts :
        /\ a.owner = ONESOL_PROTOCOL_PROGRAM_ID
        /\ a.size = 78
        /\ a.data[4] = findCall.wallet}

\* C29: findSwapInfo returns null exactly when no program account matches
\* the size and owner filters; otherwise it returns the decoded fields of
\* the first returned account, with tokenAccount = null exactly when the
\* decoded tokenAccountOption is 0 and tokenAccount = the decoded account
\* key otherwise, and with owner equal to the wallet that was searched for.
C29_FindSwapInfo ==
    (findCall # NULL /\ ~findCall.rejected) =>
        /\ findRet.kind = "return"
        /\ (findRet.value = NULL) <=> (Matching = {})
        /\ findRet.value # NULL =>
              LET first == findCall.listed[1]
              IN  /\ first \in Matching
                  /\ findRet.value.pubkey = first.pubkey
                  /\ findRet.value.programId = first.owner
                  /\ findRet.value.isInitialized = first.data[1]
                  /\ findRet.value.status = first.data[2]
                  /\ findRet.value.tokenLatestAmount = first.data[3]
                  /\ findRet.value.owner = findCall.wallet
                  /\ (findRet.value.tokenAccount = NULL_KEY)
                         <=> (first.data[5] = 0)
                  /\ first.data[5] # 0 =>
                         findRet.value.tokenAccount = first.data[6]

\* two accounts matched, the second address was listed first and its
\* token account option was 0
C29_Witness ==
    /\ findCall # NULL
    /\ ~findCall.rejected
    /\ Len(findCall.listed) = 2
    /\ findCall.listed[1].pubkey = "swapInfo2"
    /\ findRet.value # NULL
    /\ findRet.value.pubkey = "swapInfo2"
    /\ findRet.value.tokenAccount = NULL_KEY
    /\ findCall.listed[2].data[5] = 1

(***************************************************************************)
(* CLI scripts: the url module evaluated at import, then main()            *)
(***************************************************************************)
\* process.env.X of a variable that is not set
Unset == "<unset>"

\* JavaScript falsiness of process.env.X
Falsy(v) == v = Unset \/ v = ""

KnownClusters == {"devnet", "testnet", "mainnet-beta"}

Envs ==
    [LIVE : {Unset, "1"},
     CLUSTER : {Unset, "localnet"} \cup KnownClusters,
     RPC_URL : {Unset, "http://rpc.example:8899"}]

\* web3.js clusterApiUrl(cluster, tls); no cluster means devnet
clusterApiUrl(cluster, tls) ==
    LET key == IF cluster = Unset THEN "devnet" ELSE cluster
    IN  IF tls
        THEN CASE key = "devnet" -> "https://api.devnet.solana.com"
               [] key = "testnet" -> "https://api.testnet.solana.com"
               [] key = "mainnet-beta" -> "https://api.mainnet-beta.solana.com"
        ELSE CASE key = "devnet" -> "http://api.devnet.solana.com"
               [] key = "testnet" -> "http://api.testnet.solana.com"
               [] key = "mainnet-beta" -> "http://api.mainnet-beta.solana.com"

\* chooseCluster() of the url module
chooseCluster(e) ==
    IF Falsy(e.LIVE) THEN Return(Unset)
    ELSE IF e.CLUSTER \in KnownClusters THEN Return(e.CLUSTER)
    ELSE Throw("Unknown cluster, check the .env file")

\* the exported url / urlTls expression
urlOf(e, cluster, tls) ==
    IF ~Falsy(e.RPC_URL) THEN e.RPC_URL
    ELSE IF ~Falsy(e.LIVE) THEN clusterApiUrl(cluster, tls)
    ELSE "http://localhost:8899"

\* evaluating the url module: cluster first, then url and urlTls
url_module(e) ==
    LET chosen == chooseCluster(e)
    IN  IF chosen.kind = "throw" THEN chosen
        ELSE Return([cluster |-> chosen.value,
                     url |-> urlOf(e, chosen.value, FALSE),
                     urlTls |-> urlOf(e, chosen.value, TRUE)])

\* initEnvConfig() of cli/util/url.ts
initEnvConfig(e) ==
    LET cluster == IF e.CLUSTER \in KnownClusters THEN e.CLUSTER
                   ELSE "devnet"
    IN  Return([url |-> IF ~Falsy(e.RPC_URL) THEN e.RPC_URL
                        ELSE clusterApiUrl(cluster, FALSE),
                cluster |-> cluster])

\* process.exit(code)
Exit(code) == [kind |-> "exit", code |-> code]

\* the scripts: "five" is the five-stage main on top of envConfig, "two" the
\* two-stage main on top of the url module
Scripts == {"five", "two"}

\* a main() that prepares the token swap before the Serum market
MainStagesReordered(script) ==
    IF script = "five"
    THEN <<"prepareAccounts", "prepareTokenSwap", "prepareSerumDex",
           "createOneSolProtocol", "swap">>
    ELSE <<"createTokenSwap", "swap">>

\* the awaited calls of main(), in program order
MainStages(script) ==
    IF script = "five"
    THEN <<"prepareAccounts", "prepareSerumDex", "prepareTokenSwap",
           "createOneSolProtocol", "swap">>
    ELSE <<"createTokenSwap", "swap">>

\* everything a CLI run leaves alone
exceptCli ==
    <<numVars, helperVars, clientVars, marketVars, createVars, swapVars,
      routeVars, venueVars,
      findVars>>

\* the script is loaded: its imports are evaluated and main() runs up to
\* its first await; an exception at import ends the process with code 1
LoadModules ==
    /\ cliPc = "load"
    /\ LET loaded == IF cli = "five" THEN initEnvConfig(env)
                     ELSE url_module(env)
           logged == IF cli = "two" THEN <<<<"live:", env.LIVE>>>> ELSE <<>>
       IN  /\ config' = loaded
           /\ IF loaded.kind = "throw"
              THEN /\ output' = logged
                   /\ exitCode' = Exit(1)
                   /\ cliPc' = "exited"
                   /\ UNCHANGED started
              ELSE /\ output' =
                        Append(logged, <<"Run test:", MainStages(cli)[1]>>)
                   /\ started' = <<MainStages(cli)[1]>>
                   /\ cliPc' = "main"
                   /\ UNCHANGED exitCode
    /\ UNCHANGED <<exceptCli, cli, env, resolved, rejectedStage>>

\* the awaited stage resolves: main() goes on to the next one, or prints
\* Success and resolves, after which .then(() => process.exit()) runs
StageResolves ==
    /\ cliPc = "main"
    /\ resolved' = resolved + 1
    /\ IF resolved + 1 < Len(MainStages(cli))
       THEN /\ output' = Append(output,
                                <<"Run test:", MainStages(cli)[resolved + 2]>>)
            /\ started' = Append(started, MainStages(cli)[resolved + 2])
            /\ UNCHANGED <<cliPc, exitCode>>
       ELSE /\ output' = Append(output, <<"Success\n">>)
            /\ exitCode' = Exit(0)
            /\ cliPc' = "exited"
            /\ UNCHANGED started
    /\ UNCHANGED <<exceptCli, cli, env, config, rejectedStage>>

\* the awaited stage rejects: main() rejects and the catch handler runs
StageRejects ==
    /\ cliPc = "main"
    /\ rejectedStage' = Len(started)
    /\ output' = Append(output, <<"console.error", "err">>)
    /\ exitCode' = Exit(-1)
    /\ cliPc' = "exited"
    /\ UNCHANGED <<exceptCli, cli, env, config, started, resolved>>

InitCli ==
    /\ NumberIdle
    /\ HelpersIdle
    /\ ClientIdle
    /\ MarketIdle
    /\ CreateIdle
    /\ SwapIdle
    /\ RouteIdle
    /\ VenueIdle
    /\ FindIdle
    /\ cli \in Scripts
    /\ env \in Envs
    /\ cliPc = "load"
    /\ config = NULL
    /\ started = <<>>
    /\ resolved = 0
    /\ rejectedStage = 0
    /\ output = <<>>
    /\ exitCode = NULL

NextCli ==
    \/ LoadModules
    \/ StageResolves
    \/ StageRejects

SpecCli == InitCli /\ [][NextCli]_vars

\* the url module has been evaluated
UrlLoaded == cli = "two" /\ cliPc # "load"

\* C15: with RPC_URL set the url is RPC_URL; otherwise with LIVE set and
\* CLUSTER unset the cluster is devnet and the url the devnet endpoint, with
\* LIVE unset the url is http://localhost:8899, and with LIVE set and CLUSTER
\* one of devnet, testnet, mainnet-beta the url is that cluster's endpoint.
C15_EndpointSelection ==
    UrlLoaded =>
        /\ env.RPC_URL # Unset =>
              config.kind = "return" /\ config.value.url = env.RPC_URL
        /\ (env.RPC_URL = Unset /\ env.LIVE # Unset /\ env.CLUSTER = Unset) =>
              /\ config.kind = "return"
              /\ config.value.cluster = "devnet"
              /\ config.value.url = clusterApiUrl("devnet", FALSE)
        /\ (env.RPC_URL = Unset /\ env.LIVE = Unset) =>
              /\ config.kind = "return"
              /\ config.value.url = "http://localhost:8899"
        /\ (/\ env.RPC_URL = Unset
            /\ env.LIVE # Unset
            /\ env.CLUSTER \in KnownClusters) =>
              /\ config.kind = "return"
              /\ config.value.url = clusterApiUrl(env.CLUSTER, FALSE)

Range(seq) == {seq[i] : i \in 1..Len(seq)}

\* C16: the five-stage main starts its stages in the fixed order, each only
\* after the previous one has resolved; Success is printed only after all
\* five have resolved; when a stage rejects no later stage is started and
\* the process exits with code -1.
C16_StagesInOrder ==
    (cli = "five" /\ cliPc # "load") =>
        /\ started = SubSeq(<<"prepareAccounts", "prepareSerumDex",
                              "prepareTokenSwap", "createOneSolProtocol",
                              "swap">>, 1, Len(started))
        /\ Len(started) \in {resolved, resolved + 1}
        /\ cliPc = "main" => Len(started) = resolved + 1
        /\ <<"Success\n">> \in Range(output) =>
              /\ resolved = 5
              /\ rejectedStage = 0
              /\ output[Len(output)] = <<"Success\n">>
        /\ rejectedStage # 0 =>
              /\ cliPc = "exited"
              /\ exitCode = Exit(-1)
              /\ Len(started) = rejectedStage
              /\ resolved = rejectedStage - 1
        /\ exitCode = Exit(-1) => rejectedStage # 0
        /\ exitCode = Exit(0) => <<"Success\n">> \in Range(output)

\* prepareTokenSwap rejected: two stages had resolved, none started later
C16_Witness ==
    /\ cli = "five"
    /\ cliPc = "exited"
    /\ rejectedStage = 3
    /\ started = <<"prepareAccounts", "prepareSerumDex", "prepareTokenSwap">>
    /\ exitCode = Exit(-1)

====
